---- MODULE Spec2Model ----
(***************************************************************************)
(* backup-rotator: GFS retention engine (src/src/rotation_engine.py), disk *)
(* hysteresis monitor (src/src/disk_monitor.py), persistent state store    *)
(* (src/src/state_manager.py) and the orchestration in src/run.py.         *)
(***************************************************************************)
EXTENDS Integers, Sequences, FiniteSets, TLC

VARIABLES
    \* ---- retention engine (process_project, run.py:108-114) ----
    backups,            \* valid_backups handed to calculate_deletions (a list)
    project_retention,  \* project_config.retention: Absent or a RetentionPolicy
    default_retention,  \* config.default_retention
    engine,             \* the RotationEngine built by create_rotation_engine
    deletions,          \* the list returned by calculate_deletions
    rot_pc,             \* "scan" while the input is gathered, "done" after the call
    \* ---- state store and disk monitor ----
    state,              \* StateManager.state: the in-memory GlobalState
    file,               \* content of state.json: Absent or the saved dict
    today,              \* date.today(), as a day number
    disk,               \* DiskConfig: threshold_percent, margin_percent
    last_check,         \* what the last check_disk_space invocation read and did
    day_log,            \* on the current date: checks run, alerts sent, all samples low
    scen,               \* progress of the sample sequence 9, 11, 14, 16
    alert_log,          \* date of the last alert sent; a sample above T + M seen since
    \* ---- save_state step by step ----
    tmp_file,           \* content of state.tmp: Absent or what was written so far
    save_log,           \* the last save_state call: what it dumps, how far it got
    \* ---- scanner (scan_project_backups on one project directory) ----
    listing,            \* the directory entries iterdir() yields, in its order
    scan_cfg,           \* datetime_formats and min_file_size_mb of the scan
    scanned,            \* Absent, or the (valid_backups, undersized_files) returned
    \* ---- orchestration (run_once, send_weekly_summary) ----
    fs,                 \* per project id, the backup files on disk
    dry_run,            \* BackupRotator.dry_run
    run_log,            \* what the last handler did: events, per-file outcomes
    recorded,           \* project ids record_deletion was ever called for
    \* ---- scheduler mode (run_with_scheduler) ----
    sched               \* where the process is, whether the weekly job is due

vars == <<backups, project_retention, default_retention, engine, deletions, rot_pc,
          state, file, today, disk, last_check, day_log, scen,
          alert_log, tmp_file, save_log, listing, scan_cfg, scanned,
          fs, dry_run, run_log, recorded, sched>>

rot_vars == <<backups, project_retention, default_retention, engine, deletions, rot_pc>>
store_vars == <<state, file, today, disk, last_check, day_log, scen>>
persist_vars == <<tmp_file, save_log>>
scan_vars == <<listing, scan_cfg, scanned>>
run_vars == <<fs, dry_run, run_log, recorded>>
ext_vars == <<alert_log, persist_vars, scan_vars, run_vars, sched>>

\* Python's None: -1 where an int or a date is expected (both are >= 0),
\* a record with the single field "absent" where an object is expected
None == -1
Absent == [absent |-> TRUE]

\* ------------------------------------------------------------------------
\* Bounds of the model
\* ------------------------------------------------------------------------
MaxBackups == 4     \* longest input list of calculate_deletions
MaxCount == 2       \* largest daily / weekly / monthly count of a policy
MaxDay == 3         \* last calendar date of a run of the model
MaxChecks == 3      \* check_disk_space invocations followed on one date
MaxDeletions == 3   \* deletions recorded per project between two resets
MaxRaises == 1      \* save_state calls in a row that fail with an exception
MaxFiles == 3       \* backup files a project directory holds at most
MaxFails == 1       \* files whose unlink fails in one run of a handler
MaxItems == 2       \* entries of the scanned project directory
MaxFormats == 2     \* formats in datetime_formats
MaxRecords == 3     \* records of a list handed to calculate_deletions directly

\* ------------------------------------------------------------------------
\* datetime: a timestamp is <<year, month, day, hour>>, compared field by field
\* ------------------------------------------------------------------------
TsLess(a, b) ==
    \/ a[1] < b[1]
    \/ a[1] = b[1] /\ a[2] < b[2]
    \/ a[1] = b[1] /\ a[2] = b[2] /\ a[3] < b[3]
    \/ a[1] = b[1] /\ a[2] = b[2] /\ a[3] = b[3] /\ a[4] < b[4]

IsLeap(y) == (y % 4 = 0) /\ ((y % 100 # 0) \/ (y % 400 = 0))

DaysBeforeYear(y) ==
    (y - 1) * 365 + ((y - 1) \div 4) - ((y - 1) \div 100) + ((y - 1) \div 400)

DaysBeforeMonth(y, m) ==
    <<0, 31, 59, 90, 120, 151, 181, 212, 243, 273, 304, 334>>[m]
    + (IF m > 2 /\ IsLeap(y) THEN 1 ELSE 0)

\* date.toordinal(): 1 is 0001-01-01
ToOrdinal(y, m, d) == DaysBeforeYear(y) + DaysBeforeMonth(y, m) + d

\* datetime.weekday(): Monday is 0
Weekday(ts) == (ToOrdinal(ts[1], ts[2], ts[3]) + 6) % 7

\* ordinal of the Monday that starts ISO week 1 of year y
IsoWeek1Monday(y) ==
    LET firstday == ToOrdinal(y, 1, 1)
        firstweekday == (firstday + 6) % 7
        week1monday == firstday - firstweekday
    IN  IF firstweekday > 3 THEN week1monday + 7 ELSE week1monday

\* datetime.isocalendar()[0:2]: <<iso_year, iso_week>>
IsoCalendar(ts) ==
    LET y == ts[1]
        ord == ToOrdinal(ts[1], ts[2], ts[3])
        week == (ord - IsoWeek1Monday(y)) \div 7
    IN  IF ord < IsoWeek1Monday(y)
          THEN <<y - 1, ((ord - IsoWeek1Monday(y - 1)) \div 7) + 1>>
        ELSE IF week >= 52 /\ ord >= IsoWeek1Monday(y + 1)
          THEN <<y + 1, 1>>
        ELSE <<y, week + 1>>

\* ------------------------------------------------------------------------
\* RotationEngine (src/src/rotation_engine.py)
\* A BackupFile is [path, timestamp]; equality and hashing use path alone.
\* ------------------------------------------------------------------------
_is_monday(ts) == Weekday(ts) = 0

_is_first_of_month(ts) == ts[3] = 1

_get_calendar_week_key(ts) == IsoCalendar(ts)

_get_calendar_month_key(ts) == <<ts[1], ts[2]>>

\* tuple comparison of two (year, n) keys
KeyLess(k1, k2) == k1[1] < k2[1] \/ (k1[1] = k2[1] /\ k1[2] < k2[2])

Take(s, n) == SubSeq(s, 1, IF n < Len(s) THEN n ELSE Len(s))

RECURSIVE InsertDesc(_, _)
\* place b behind every element whose timestamp is not older (stable, newest first)
InsertDesc(s, b) ==
    IF s = <<>> THEN <<b>>
    ELSE IF TsLess(Head(s).timestamp, b.timestamp) THEN <<b>> \o s
    ELSE <<Head(s)>> \o InsertDesc(Tail(s), b)

RECURSIVE SortFrom(_, _, _)
SortFrom(bs, i, acc) ==
    IF i > Len(bs) THEN acc ELSE SortFrom(bs, i + 1, InsertDesc(acc, bs[i]))

\* sorted(backups, key=lambda b: b.timestamp, reverse=True)
SortedBackups(bs) == SortFrom(bs, 1, <<>>)

RECURSIVE MaxFrom(_, _, _)
MaxFrom(s, i, best) ==
    IF i > Len(s) THEN best
    ELSE MaxFrom(s, i + 1, IF TsLess(best.timestamp, s[i].timestamp) THEN s[i] ELSE best)

\* max(s, key=lambda b: b.timestamp): the first element with the newest timestamp
MaxByTimestamp(s) == MaxFrom(s, 2, s[1])

RECURSIVE SortedKeysAsc(_)
\* mutant of SortedKeysDesc: reverse=True forgotten, oldest key first
SortedKeysAsc(keys) ==
    IF keys = {} THEN <<>>
    ELSE LET low == CHOOSE k \in keys : \A o \in keys : ~KeyLess(o, k)
         IN  <<low>> \o SortedKeysAsc(keys \ {low})

RECURSIVE SortedKeysDesc(_)
\* sorted(buckets.keys(), reverse=True)
SortedKeysDesc(keys) ==
    IF keys = {} THEN <<>>
    ELSE LET top == CHOOSE k \in keys : \A o \in keys : ~KeyLess(k, o)
         IN  <<top>> \o SortedKeysDesc(keys \ {top})

WeekBucket(sorted, key) ==
    SelectSeq(sorted, LAMBDA b : _get_calendar_week_key(b.timestamp) = key)

MonthBucket(sorted, key) ==
    SelectSeq(sorted, LAMBDA b : _get_calendar_month_key(b.timestamp) = key)

\* mutant of DailyBackups: the slice is one record short
DailyBackups_OneShort(eng, sorted) == Take(sorted, eng.daily_count - 1)

\* mutant of DailyBackups: the slice starts behind the newest record
DailyBackups_SkipNewest(eng, sorted) ==
    SubSeq(sorted, 2, IF eng.daily_count + 1 < Len(sorted)
                        THEN eng.daily_count + 1 ELSE Len(sorted))

\* daily_backups = sorted_backups[: self.daily_count]
DailyBackups(eng, sorted) == Take(sorted, eng.daily_count)

\* mutant of SortedWeeks: the slice takes one week key too many
SortedWeeks_OneMore(eng, sorted) ==
    Take(SortedKeysDesc({_get_calendar_week_key(sorted[i].timestamp) : i \in DOMAIN sorted}),
         eng.weekly_count + 1)

\* sorted(weekly_buckets.keys(), reverse=True)[: self.weekly_count]
SortedWeeks(eng, sorted) ==
    Take(SortedKeysDesc({_get_calendar_week_key(sorted[i].timestamp) : i \in DOMAIN sorted}),
         eng.weekly_count)

\* sorted(monthly_buckets.keys(), reverse=True)[: self.monthly_count]
SortedMonths(eng, sorted) ==
    Take(SortedKeysDesc({_get_calendar_month_key(sorted[i].timestamp) : i \in DOMAIN sorted}),
         eng.monthly_count)

\* mutant of WeekPick: no preference for Monday
WeekPick_Newest(week_backups) == MaxByTimestamp(week_backups)

\* the record kept for one selected week
WeekPick(week_backups) ==
    LET monday_backups == SelectSeq(week_backups, LAMBDA b : _is_monday(b.timestamp))
    IN  IF monday_backups # <<>> THEN MaxByTimestamp(monday_backups)
        ELSE MaxByTimestamp(week_backups)

\* mutant of MonthPick: no preference for the first of the month
MonthPick_Newest(month_backups) == MaxByTimestamp(month_backups)

\* the record kept for one selected month
MonthPick(month_backups) ==
    LET first_of_month_backups ==
            SelectSeq(month_backups, LAMBDA b : _is_first_of_month(b.timestamp))
    IN  IF first_of_month_backups # <<>> THEN MaxByTimestamp(first_of_month_backups)
        ELSE MaxByTimestamp(month_backups)

Range(s) == {s[i] : i \in DOMAIN s}

\* paths added to keep_backups by each of the three tiers
DailyKeep(eng, sorted) == {b.path : b \in Range(DailyBackups(eng, sorted))}

WeeklyKeep(eng, sorted) ==
    {WeekPick(WeekBucket(sorted, k)).path : k \in Range(SortedWeeks(eng, sorted))}

MonthlyKeep(eng, sorted) ==
    {MonthPick(MonthBucket(sorted, k)).path : k \in Range(SortedMonths(eng, sorted))}

\* keep_backups, as the set of paths its members stand for
KeepBackups(eng, sorted) ==
    DailyKeep(eng, sorted) \cup WeeklyKeep(eng, sorted) \cup MonthlyKeep(eng, sorted)

\* mutant of calculate_deletions: records compared field by field, as a
\* dataclass without __eq__ and __hash__ would be
calculate_deletions_ByIdentity(eng, bs) ==
    IF bs = <<>> THEN <<>>
    ELSE LET sorted == SortedBackups(bs)
             keep_backups ==
                 Range(DailyBackups(eng, sorted))
                   \cup {WeekPick(WeekBucket(sorted, k)) : k \in Range(SortedWeeks(eng, sorted))}
                   \cup {MonthPick(MonthBucket(sorted, k)) :
                            k \in Range(SortedMonths(eng, sorted))}
         IN  SelectSeq(sorted, LAMBDA b : b \notin keep_backups)

calculate_deletions(eng, bs) ==
    IF bs = <<>> THEN <<>>
    ELSE LET sorted == SortedBackups(bs)
             keep_backups == KeepBackups(eng, sorted)
         IN  SelectSeq(sorted, LAMBDA b : b.path \notin keep_backups)


\* ------------------------------------------------------------------------
\* GlobalState / ProjectState (src/src/state_manager.py)
\* A date or datetime stamp is the day number it falls on.
\* ------------------------------------------------------------------------
Projects == {"p1", "p2"}

FileSizes == {10, 20, 30}

NoProjects == [p \in {} |-> Absent]

\* ProjectState(project_id=pid)
ProjectState(pid) ==
    [project_id |-> pid, last_deletion_timestamp |-> None,
     deleted_files_count |-> 0, deleted_files_size_bytes |-> 0]

\* GlobalState()
EmptyGlobalState ==
    [last_weekly_report_timestamp |-> None, disk_alert_last_sent_date |-> None,
     projects |-> NoProjects]

\* GlobalState.get_project_state: the state after the call (get or create)
get_project_state(st, pid) ==
    IF pid \notin DOMAIN st.projects
      THEN [st EXCEPT !.projects = (pid :> ProjectState(pid)) @@ st.projects]
      ELSE st

reset_deletion_stats(ps) ==
    [ps EXCEPT !.deleted_files_count = 0, !.deleted_files_size_bytes = 0]

\* mutant of reset_all_deletion_stats: the project entries are dropped
reset_all_deletion_stats_Clear(st) == [st EXCEPT !.projects = NoProjects]

reset_all_deletion_stats(st) ==
    [st EXCEPT !.projects = [pid \in DOMAIN st.projects |-> reset_deletion_stats(st.projects[pid])]]

\* mutant of should_send_disk_alert: the stored date is compared with a datetime
\* stamp, which never equals it
should_send_disk_alert_Always(st, date_today) == TRUE

should_send_disk_alert(st, date_today) == st.disk_alert_last_sent_date # date_today

mark_disk_alert_sent(st, date_today) == [st EXCEPT !.disk_alert_last_sent_date = date_today]

clear_disk_alert(st) == [st EXCEPT !.disk_alert_last_sent_date = None]

record_deletion(st, pid, file_size_bytes, now) ==
    LET created == get_project_state(st, pid)
    IN  [created EXCEPT
            !.projects[pid].deleted_files_count = @ + 1,
            !.projects[pid].deleted_files_size_bytes = @ + file_size_bytes,
            !.projects[pid].last_deletion_timestamp = now]

mark_weekly_report_sent(st, now) == [st EXCEPT !.last_weekly_report_timestamp = now]

\* ------------------------------------------------------------------------
\* StateManager: state.json holds the dict that save_state dumps
\* ------------------------------------------------------------------------
\* asdict(pstate)
asdict(ps) ==
    [project_id |-> ps.project_id,
     last_deletion_timestamp |-> ps.last_deletion_timestamp,
     deleted_files_count |-> ps.deleted_files_count,
     deleted_files_size_bytes |-> ps.deleted_files_size_bytes]

\* save_state: the content of the state file after the temp file replaced it
save_state(st) ==
    [data |-> [last_weekly_report_timestamp |-> st.last_weekly_report_timestamp,
               disk_alert_last_sent_date |-> st.disk_alert_last_sent_date,
               projects |-> [pid \in DOMAIN st.projects |-> asdict(st.projects[pid])]]]

\* dict.get(key, default)
Get(d, key, default) == IF key \in DOMAIN d THEN d[key] ELSE default

\* the keyword arguments ProjectState(**pstate_dict) accepts
ProjectStateFields ==
    {"project_id", "last_deletion_timestamp", "deleted_files_count",
     "deleted_files_size_bytes"}

\* ProjectState(**pstate_dict) raises TypeError on an unknown key and on a
\* missing project_id
ProjectStateAccepts(d) ==
    DOMAIN d \subseteq ProjectStateFields /\ "project_id" \in DOMAIN d

\* ProjectState(**pstate_dict): absent fields take the dataclass defaults
ProjectStateFrom(d) ==
    [project_id |-> d.project_id,
     last_deletion_timestamp |-> Get(d, "last_deletion_timestamp", None),
     deleted_files_count |-> Get(d, "deleted_files_count", 0),
     deleted_files_size_bytes |-> Get(d, "deleted_files_size_bytes", 0)]

\* What the try block of _load_state raises on a file that exists.  The file is
\* [data |-> dict] when it holds a JSON object, [text |-> ...] when it is not
\* valid JSON (json.load raises), [json |-> ...] when it is valid JSON of another
\* type (data.get raises).
load_exception(f) ==
    IF "text" \in DOMAIN f THEN "JSONDecodeError"
    ELSE IF "json" \in DOMAIN f THEN "AttributeError"
    ELSE LET projects_data == Get(f.data, "projects", NoProjects)
         IN  IF \E pid \in DOMAIN projects_data : ~ProjectStateAccepts(projects_data[pid])
               THEN "TypeError"
               ELSE "none"

\* the exception classes of the two handlers of _load_state
IsJSONDecodeError(exc) == exc = "JSONDecodeError"

IsException(exc) ==
    exc \in {"JSONDecodeError", "AttributeError", "TypeError", "OSError",
             "ParserError", "OverflowError"}

\* mutant of _load_state_escapes: only json.JSONDecodeError is handled
_load_state_escapes_OnlyJSON(f) ==
    /\ f # Absent
    /\ load_exception(f) # "none"
    /\ ~IsJSONDecodeError(load_exception(f))

\* an exception leaves _load_state (and so StateManager.__init__)
_load_state_escapes(f) ==
    /\ f # Absent
    /\ load_exception(f) # "none"
    /\ ~IsJSONDecodeError(load_exception(f))
    /\ ~IsException(load_exception(f))

\* _load_state: the empty state when the file is missing or the try block
\* raises, else GlobalState rebuilt from the dict
_load_state(f) ==
    IF f = Absent THEN EmptyGlobalState
    ELSE IF load_exception(f) # "none" THEN EmptyGlobalState
    ELSE LET projects_data == Get(f.data, "projects", NoProjects)
         IN  [last_weekly_report_timestamp |->
                  Get(f.data, "last_weekly_report_timestamp", None),
              disk_alert_last_sent_date |-> Get(f.data, "disk_alert_last_sent_date", None),
              projects |-> [pid \in DOMAIN projects_data |->
                              ProjectStateFrom(projects_data[pid])]]

\* ---- save_state, step by step (state_manager.py:138-142) ----
\* what open(temp_file, "w") leaves, and a dump that was cut short
EmptyText == [text |-> "empty"]
PartialText == [text |-> "partial"]

\* how far a save_state call gets before the process dies or the call raises:
\* 1 dict built and directory made, 2 temp file opened (truncated), 3 part of the
\* dump written, 4 dump complete and temp file closed, 5 temp file renamed over
\* the state file
SaveSteps == 1..5

\* mutant of save_state_upto: the dump is written into the state file itself
save_state_upto_InPlace(st, f, tmp, step) ==
    IF step = 1 THEN [file |-> f, tmp |-> tmp]
    ELSE IF step = 2 THEN [file |-> EmptyText, tmp |-> tmp]
    ELSE IF step = 3 THEN [file |-> PartialText, tmp |-> tmp]
    ELSE [file |-> save_state(st), tmp |-> tmp]

\* the state file and the temp file once save_state has completed `step` steps
save_state_upto(st, f, tmp, step) ==
    IF step = 1 THEN [file |-> f, tmp |-> tmp]
    ELSE IF step = 2 THEN [file |-> f, tmp |-> EmptyText]
    ELSE IF step = 3 THEN [file |-> f, tmp |-> PartialText]
    ELSE IF step = 4 THEN [file |-> f, tmp |-> save_state(st)]
    ELSE [file |-> save_state(st), tmp |-> Absent]

\* ------------------------------------------------------------------------
\* DiskMonitor (src/src/disk_monitor.py)
\* get_disk_usage yields a free-space percentage or raises
\* ------------------------------------------------------------------------
FileNotFoundError == -2
OSError == -3
NotRead == -4

FreePercents == {9, 10, 11, 14, 15, 16}

DiskUsages == FreePercents \cup {FileNotFoundError, OSError}

DiskConfigs ==
    {[threshold_percent |-> 10, margin_percent |-> 5],
     [threshold_percent |-> 10, margin_percent |-> 0],
     [threshold_percent |-> 11, margin_percent |-> 4]}

ScenarioDisk == [threshold_percent |-> 10, margin_percent |-> 5]

ScenarioSamples == <<9, 11, 14, 16>>

Raises(usage) == usage \in {FileNotFoundError, OSError}

resolution_threshold_percent(cfg) == cfg.threshold_percent + cfg.margin_percent

\* mutant of should_alert: only FileNotFoundError is caught
should_alert_NarrowExcept(cfg, usage) ==
    IF usage = FileNotFoundError
      THEN [raised |-> FALSE, should_alert |-> FALSE, free_percent |-> 0]
    ELSE IF usage = OSError
      THEN [raised |-> TRUE, should_alert |-> FALSE, free_percent |-> 0]
    ELSE [raised |-> FALSE, should_alert |-> usage < cfg.threshold_percent,
          free_percent |-> usage]

\* should_alert: (False, 0.0, ...) when get_disk_usage raises; nothing escapes
should_alert(cfg, usage) ==
    IF Raises(usage)
      THEN [raised |-> FALSE, should_alert |-> FALSE, free_percent |-> 0]
      ELSE [raised |-> FALSE, should_alert |-> usage < cfg.threshold_percent,
            free_percent |-> usage]

\* is_resolved: False when get_disk_usage raises; nothing escapes
is_resolved(cfg, usage) ==
    IF Raises(usage)
      THEN [raised |-> FALSE, is_resolved |-> FALSE]
      ELSE [raised |-> FALSE, is_resolved |-> usage > resolution_threshold_percent(cfg)]

StoreIdle ==
    /\ state = EmptyGlobalState
    /\ file = Absent
    /\ today = 1
    /\ disk = ScenarioDisk
    /\ last_check = Absent
    /\ day_log = [checks |-> 0, alerts |-> 0, all_low |-> TRUE]
    /\ scen = [pos |-> 0, flags |-> <<>>]

\* the process was not started in scheduler mode
SchedOff == [pc |-> "off", loop_running |-> FALSE, due |-> FALSE]

\* nothing saved step by step, nothing scanned, no handler run
ExtIdle ==
    /\ alert_log = [sent_on |-> None, exceeded |-> FALSE]
    /\ tmp_file = Absent
    /\ save_log = Absent
    /\ listing = <<>>
    /\ scan_cfg = Absent
    /\ scanned = Absent
    /\ fs = <<>>
    /\ dry_run = TRUE
    /\ run_log = Absent
    /\ recorded = {}
    /\ sched = SchedOff

\* ------------------------------------------------------------------------
\* create_rotation_engine and the retention a project is rotated with
\* ------------------------------------------------------------------------
DefaultDaily == 7
DefaultWeekly == 4
DefaultMonthly == 12

\* mutant of create_rotation_engine: `daily or default_daily`, so 0 takes the default
create_rotation_engine_Falsy(daily, weekly, monthly) ==
    [daily_count   |-> IF daily # None /\ daily # 0 THEN daily ELSE DefaultDaily,
     weekly_count  |-> IF weekly # None /\ weekly # 0 THEN weekly ELSE DefaultWeekly,
     monthly_count |-> IF monthly # None /\ monthly # 0 THEN monthly ELSE DefaultMonthly]

create_rotation_engine(daily, weekly, monthly) ==
    [daily_count   |-> IF daily # None THEN daily ELSE DefaultDaily,
     weekly_count  |-> IF weekly # None THEN weekly ELSE DefaultWeekly,
     monthly_count |-> IF monthly # None THEN monthly ELSE DefaultMonthly]

\* retention = project_config.retention or self.config.default_retention
\* (a RetentionPolicy object is truthy whatever its counts are)
Retention(project, default) == IF project # Absent THEN project ELSE default

\* RetentionPolicy: three counts, each >= 0
Policies == [daily : 0..MaxCount, weekly : 0..MaxCount, monthly : 0..MaxCount]

DefaultRetentions == {[daily |-> 1, weekly |-> 1, monthly |-> 1]}

\* Timestamps the scanner may read off a filename: Sat 2024-11-30 (ISO 2024-W48),
\* Mon 2024-12-30 and Wed 2025-01-01 (both ISO 2025-W01), Mon 2025-01-06 and
\* Wed 2025-01-08 (both ISO 2025-W02); two files may carry the same timestamp
Timestamps ==
    {<<2024, 11, 30, 3>>, <<2024, 12, 30, 3>>, <<2025, 1, 1, 3>>,
     <<2025, 1, 6, 3>>, <<2025, 1, 8, 3>>}

\* the dated records of the end-to-end scenario, newest first (2024-01-08 is a Monday)
ScenarioDates ==
    <<<<2024, 1, 10, 3>>, <<2024, 1, 9, 3>>, <<2024, 1, 8, 3>>, <<2024, 1, 3, 3>>,
      <<2023, 12, 15, 3>>>>

ScenarioPolicy == [daily |-> 2, weekly |-> 1, monthly |-> 1]

\* ---- the retention engine on one project's scan ----
InitRotation ==
    /\ ExtIdle
    /\ backups = <<>>
    /\ project_retention = Absent
    /\ default_retention \in DefaultRetentions
    /\ engine = Absent
    /\ deletions = <<>>
    /\ rot_pc = "scan"
    /\ StoreIdle

\* the scanner appends one valid BackupFile (paths of one directory are distinct)
ScanBackup(ts) ==
    /\ rot_pc = "scan"
    /\ Len(backups) < MaxBackups
    /\ backups' = Append(backups, [path |-> Len(backups) + 1, timestamp |-> ts])
    /\ UNCHANGED <<project_retention, default_retention, engine, deletions, rot_pc>>
    /\ UNCHANGED store_vars
    /\ UNCHANGED ext_vars

\* process_project, run.py:108-114
Rotate(retention_cfg) ==
    /\ rot_pc = "scan"
    /\ project_retention' = retention_cfg
    /\ LET retention == Retention(retention_cfg, default_retention)
           rotation_engine ==
               create_rotation_engine(retention.daily, retention.weekly, retention.monthly)
       IN  /\ engine' = rotation_engine
           /\ deletions' = calculate_deletions(rotation_engine, backups)
    /\ rot_pc' = "done"
    /\ UNCHANGED <<backups, default_retention>>
    /\ UNCHANGED store_vars
    /\ UNCHANGED ext_vars

NextRotation ==
    \/ \E ts \in Timestamps : ScanBackup(ts)
    \/ \E r \in Policies \cup {Absent} : Rotate(r)

SpecRotation == InitRotation /\ [][NextRotation]_vars

\* ---- the retention engine on any list of records ----
\* file locations of the records a caller may put into the list
Locations == {1, 2}

EngineTimestamps == {<<2024, 12, 30, 3>>, <<2025, 1, 1, 3>>, <<2025, 1, 6, 3>>}

\* the caller of calculate_deletions adds a BackupFile to its list; nothing
\* keeps two records of the list from naming the same location
AppendBackup(path, ts) ==
    /\ rot_pc = "scan"
    /\ Len(backups) < MaxRecords
    /\ backups' = Append(backups, [path |-> path, timestamp |-> ts])
    /\ UNCHANGED <<project_retention, default_retention, engine, deletions, rot_pc>>
    /\ UNCHANGED store_vars
    /\ UNCHANGED ext_vars

NextEngine ==
    \/ \E path \in Locations : \E ts \in EngineTimestamps : AppendBackup(path, ts)
    \/ \E r \in Policies \cup {Absent} : Rotate(r)

SpecEngine == InitRotation /\ [][NextEngine]_vars

\* ---- the end-to-end scenario: its five records, scanned in any order ----
InitScenario ==
    /\ ExtIdle
    /\ backups = <<>>
    /\ project_retention = ScenarioPolicy
    /\ default_retention \in DefaultRetentions
    /\ engine = Absent
    /\ deletions = <<>>
    /\ rot_pc = "scan"
    /\ StoreIdle

ScanScenario(i) ==
    /\ rot_pc = "scan"
    /\ \A j \in DOMAIN backups : backups[j].path # i
    /\ backups' = Append(backups, [path |-> i, timestamp |-> ScenarioDates[i]])
    /\ UNCHANGED <<project_retention, default_retention, engine, deletions, rot_pc>>
    /\ UNCHANGED store_vars
    /\ UNCHANGED ext_vars

RotateScenario ==
    /\ Len(backups) = Len(ScenarioDates)
    /\ Rotate(project_retention)

NextScenario ==
    \/ \E i \in DOMAIN ScenarioDates : ScanScenario(i)
    \/ RotateScenario

SpecScenario == InitScenario /\ [][NextScenario]_vars


\* ------------------------------------------------------------------------
\* Retention engine: properties
\* ------------------------------------------------------------------------
RotDone == rot_pc = "done"

InputPaths == {backups[i].path : i \in DOMAIN backups}

DeletedPaths == {deletions[i].path : i \in DOMAIN deletions}

RetainedPaths == InputPaths \ DeletedPaths

DistinctTimestamps ==
    \A i, j \in DOMAIN backups : i # j => backups[i].timestamp # backups[j].timestamp

\* how many input records are strictly newer than b
NewerCount(b) ==
    Cardinality({i \in DOMAIN backups : TsLess(b.timestamp, backups[i].timestamp)})

WeekKeys == {_get_calendar_week_key(backups[i].timestamp) : i \in DOMAIN backups}

MonthKeys == {_get_calendar_month_key(backups[i].timestamp) : i \in DOMAIN backups}

\* key k is among the n most recent keys of the set keys
AmongMostRecent(k, keys, n) == Cardinality({o \in keys : KeyLess(k, o)}) < n

SameWeek(a, b) ==
    _get_calendar_week_key(a.timestamp) = _get_calendar_week_key(b.timestamp)

InMonth(b, k) == _get_calendar_month_key(b.timestamp) = k

\* C1: with daily = N and at least N records of pairwise distinct timestamps, none
\* of the N most recent records is deleted, whatever weekly and monthly are
C1_DailyMostRecentRetained ==
    (RotDone /\ DistinctTimestamps /\ Len(backups) >= engine.daily_count) =>
        \A b \in Range(backups) :
            NewerCount(b) < engine.daily_count => b.path \notin DeletedPaths

C1_Witness ==
    /\ RotDone /\ DistinctTimestamps
    /\ engine.daily_count = 2 /\ engine.weekly_count = 1 /\ engine.monthly_count = 1
    /\ Len(backups) = 4
    /\ Cardinality(RetainedPaths) = 3
    /\ \E b \in Range(backups) : NewerCount(b) = 1 /\ b.path \in RetainedPaths

\* C2 as stated: whenever the input is two records of one ISO week of which exactly
\* one is a Monday, the Monday record is not deleted
C2_MondayRetainedAnyPolicy ==
    (RotDone /\ Len(backups) = 2) =>
        \A a, b \in Range(backups) :
            (SameWeek(a, b) /\ _is_monday(a.timestamp) /\ ~_is_monday(b.timestamp))
                => a.path \notin DeletedPaths

\* C2 as amended: with weekly >= 1, in any input, when a week among the `weekly`
\* most recent week keys holds exactly one Monday record and some non-Monday
\* record, the Monday record is not deleted, even if the other one is newer
C2_MondayRetained ==
    (RotDone /\ engine.weekly_count >= 1) =>
        \A a, b \in Range(backups) :
            ( /\ SameWeek(a, b)
              /\ _is_monday(a.timestamp) /\ ~_is_monday(b.timestamp)
              /\ \A c \in Range(backups) :
                    (SameWeek(a, c) /\ _is_monday(c.timestamp)) => c = a
              /\ AmongMostRecent(_get_calendar_week_key(a.timestamp), WeekKeys,
                                 engine.weekly_count) )
                => a.path \notin DeletedPaths

C2_Witness ==
    /\ RotDone /\ Len(backups) = 2
    /\ engine.daily_count = 0 /\ engine.weekly_count = 1 /\ engine.monthly_count = 0
    /\ \E a, b \in Range(backups) :
          /\ SameWeek(a, b) /\ _is_monday(a.timestamp) /\ ~_is_monday(b.timestamp)
          /\ TsLess(a.timestamp, b.timestamp)
          /\ a.path \in RetainedPaths /\ b.path \in DeletedPaths

\* the five scenario records by their position in ScenarioDates:
\* 1 = Jan 10, 2 = Jan 9, 3 = Jan 8 (Monday), 4 = Jan 3, 5 = Dec 15
\* C3 as stated: Jan 10, Jan 9, Jan 8 and Dec 15 are retained, the deletion set
\* is exactly {Jan 3}
C3_ScenarioDeletesOnlyJan3 ==
    RotDone => (DeletedPaths = {4} /\ RetainedPaths = {1, 2, 3, 5})

\* C3 as amended: daily keeps Jan 10 and Jan 9, weekly keeps the Monday Jan 8,
\* monthly = 1 selects only the most recent month (January) and there Jan 10;
\* the deletion set is {Jan 3, Dec 15}
C3_ScenarioDeletions ==
    RotDone =>
        /\ DeletedPaths = {4, 5}
        /\ Len(deletions) = 2
        /\ RetainedPaths = {1, 2, 3}
        /\ DailyKeep(engine, SortedBackups(backups)) = {1, 2}
        /\ WeeklyKeep(engine, SortedBackups(backups)) = {3}
        /\ MonthlyKeep(engine, SortedBackups(backups)) = {1}

C3_Witness ==
    /\ RotDone
    /\ engine = [daily_count |-> 2, weekly_count |-> 1, monthly_count |-> 1]
    /\ Len(backups) = 5
    /\ backups[1].path = 5 /\ backups[5].path = 3

\* C4: at most daily + weekly + monthly records are retained, and exactly that
\* many only when no record is selected by more than one tier
C4_RetainedAtMostSum ==
    RotDone =>
        LET sorted == SortedBackups(backups)
            sum == engine.daily_count + engine.weekly_count + engine.monthly_count
        IN  /\ Cardinality(RetainedPaths) <= sum
            /\ Cardinality(RetainedPaths) = sum =>
                  /\ DailyKeep(engine, sorted) \cap WeeklyKeep(engine, sorted) = {}
                  /\ DailyKeep(engine, sorted) \cap MonthlyKeep(engine, sorted) = {}
                  /\ WeeklyKeep(engine, sorted) \cap MonthlyKeep(engine, sorted) = {}

C4_Witness ==
    /\ RotDone
    /\ engine = [daily_count |-> 1, weekly_count |-> 1, monthly_count |-> 1]
    /\ Len(backups) = 4
    /\ Cardinality(RetainedPaths) = 3

\* C5: a tier whose count is 0 keeps nothing, the policy (0,0,0) deletes the whole
\* input, and the counts configured for the project reach the engine unchanged
C5_ZeroKeepsNothing ==
    RotDone =>
        LET sorted == SortedBackups(backups)
        IN  /\ engine.daily_count = 0 => DailyKeep(engine, sorted) = {}
            /\ engine.weekly_count = 0 => WeeklyKeep(engine, sorted) = {}
            /\ engine.monthly_count = 0 => MonthlyKeep(engine, sorted) = {}
            /\ (engine.daily_count = 0 /\ engine.weekly_count = 0
                    /\ engine.monthly_count = 0)
                  => (DeletedPaths = InputPaths /\ Len(deletions) = Len(backups))
            /\ project_retention # Absent =>
                  engine = [daily_count   |-> project_retention.daily,
                            weekly_count  |-> project_retention.weekly,
                            monthly_count |-> project_retention.monthly]

C5_Witness ==
    /\ RotDone
    /\ project_retention = [daily |-> 0, weekly |-> 0, monthly |-> 0]
    /\ default_retention.daily > 0
    /\ Len(backups) = 3
    /\ Len(deletions) = 3

\* the record the monthly tier must select in month k: the most recent record of
\* the 1st if the month has one, otherwise the most recent record of the month
IsMonthAnchor(b, k) ==
    /\ InMonth(b, k)
    /\ IF \E c \in Range(backups) : InMonth(c, k) /\ _is_first_of_month(c.timestamp)
         THEN /\ _is_first_of_month(b.timestamp)
              /\ \A c \in Range(backups) :
                    (InMonth(c, k) /\ _is_first_of_month(c.timestamp))
                        => ~TsLess(b.timestamp, c.timestamp)
         ELSE \A c \in Range(backups) : InMonth(c, k) => ~TsLess(b.timestamp, c.timestamp)

\* C6: the monthly tier selects exactly one record, the month's anchor, for each of
\* the `monthly` most recent month keys and nothing from older months; what it
\* selects is retained, and it is all that is retained when daily = weekly = 0
C6_MonthlyTier ==
    RotDone =>
        LET selected == MonthlyKeep(engine, SortedBackups(backups))
        IN  /\ \A k \in MonthKeys :
                  LET of_k == {b \in Range(backups) : InMonth(b, k) /\ b.path \in selected}
                  IN  IF AmongMostRecent(k, MonthKeys, engine.monthly_count)
                        THEN /\ Cardinality(of_k) = 1
                             /\ \A b \in of_k : IsMonthAnchor(b, k)
                        ELSE of_k = {}
            /\ selected \subseteq RetainedPaths
            /\ (engine.daily_count = 0 /\ engine.weekly_count = 0)
                  => RetainedPaths = selected

C6_Witness ==
    /\ RotDone
    /\ engine = [daily_count |-> 0, weekly_count |-> 0, monthly_count |-> 1]
    /\ Cardinality(MonthKeys) = 2
    /\ \E a, b, c \in Range(backups) :
          /\ InMonth(a, <<2025, 1>>) /\ InMonth(b, <<2025, 1>>)
          /\ _is_first_of_month(a.timestamp) /\ TsLess(a.timestamp, b.timestamp)
          /\ ~InMonth(c, <<2025, 1>>)
          /\ a.path \in RetainedPaths
          /\ b.path \in DeletedPaths /\ c.path \in DeletedPaths


\* ------------------------------------------------------------------------
\* BackupRotator.check_disk_space (src/run.py:169-181)
\* usage1 is what should_alert reads, usage2 what is_resolved reads right after
\* ------------------------------------------------------------------------
CheckResult(st, f, read2, sent, cleared, raised) ==
    [state |-> st, file |-> f, read2 |-> read2, sent |-> sent, cleared |-> cleared,
     raised |-> raised]

\* mutant of check_disk_space: the alert is resolved as soon as should_alert is false
check_disk_space_NoHysteresis(cfg, st, f, date_today, usage1, usage2) ==
    LET alert == should_alert(cfg, usage1)
    IN  IF alert.should_alert
          THEN IF should_send_disk_alert(st, date_today)
                 THEN CheckResult(mark_disk_alert_sent(st, date_today),
                                  save_state(mark_disk_alert_sent(st, date_today)),
                                  NotRead, TRUE, FALSE, FALSE)
                 ELSE CheckResult(st, f, NotRead, FALSE, FALSE, FALSE)
          ELSE CheckResult(clear_disk_alert(st), save_state(clear_disk_alert(st)),
                           usage2, FALSE, TRUE, FALSE)

check_disk_space(cfg, st, f, date_today, usage1, usage2) ==
    LET alert == should_alert(cfg, usage1)
        resolved == is_resolved(cfg, usage2)
    IN  IF alert.raised
          THEN CheckResult(st, f, NotRead, FALSE, FALSE, TRUE)
        ELSE IF alert.should_alert
          THEN IF should_send_disk_alert(st, date_today)
                 THEN \* send_low_disk_alert, then mark_disk_alert_sent (which saves)
                      CheckResult(mark_disk_alert_sent(st, date_today),
                                  save_state(mark_disk_alert_sent(st, date_today)),
                                  NotRead, TRUE, FALSE, FALSE)
                 ELSE CheckResult(st, f, NotRead, FALSE, FALSE, FALSE)
        ELSE IF resolved.raised
          THEN CheckResult(st, f, usage2, FALSE, FALSE, TRUE)
        ELSE IF resolved.is_resolved
          THEN \* clear_disk_alert (which saves)
               CheckResult(clear_disk_alert(st), save_state(clear_disk_alert(st)),
                           usage2, FALSE, TRUE, FALSE)
        ELSE CheckResult(st, f, usage2, FALSE, FALSE, FALSE)

\* ---- observers of the checks (no program state) ----
\* the check saw one free-space value u
SingleSample(u, read2) == ~Raises(u) /\ (read2 = NotRead \/ read2 = u)

ScenNext(sc, u, read2, alerting_after) ==
    IF SingleSample(u, read2) /\ sc.pos < Len(ScenarioSamples)
          /\ u = ScenarioSamples[sc.pos + 1]
      THEN [pos |-> sc.pos + 1, flags |-> Append(sc.flags, alerting_after)]
    ELSE IF SingleSample(u, read2) /\ u = ScenarioSamples[1]
      THEN [pos |-> 1, flags |-> <<alerting_after>>]
    ELSE [pos |-> 0, flags |-> <<>>]

RotIdle ==
    /\ backups = <<>>
    /\ project_retention = Absent
    /\ default_retention = [daily |-> 1, weekly |-> 1, monthly |-> 1]
    /\ engine = Absent
    /\ deletions = <<>>
    /\ rot_pc = "idle"

\* ---- the disk check across invocations, dates and process restarts ----
InitDisk ==
    /\ RotIdle
    /\ ExtIdle
    /\ state = _load_state(Absent)
    /\ file = Absent
    /\ today = 1
    /\ disk \in DiskConfigs
    /\ last_check = Absent
    /\ day_log = [checks |-> 0, alerts |-> 0, all_low |-> TRUE]
    /\ scen = [pos |-> 0, flags |-> <<>>]

CheckDiskSpace(usage1, usage2) ==
    /\ day_log.checks < MaxChecks
    /\ LET out == check_disk_space(disk, state, file, today, usage1, usage2)
       IN  /\ state' = out.state
           /\ file' = out.file
           /\ last_check' = [read1 |-> usage1, read2 |-> out.read2, sent |-> out.sent,
                             cleared |-> out.cleared, raised |-> out.raised]
           /\ day_log' = [checks |-> day_log.checks + 1,
                          alerts |-> day_log.alerts + (IF out.sent THEN 1 ELSE 0),
                          all_low |-> day_log.all_low /\ ~Raises(usage1)
                                        /\ usage1 < disk.threshold_percent]
           /\ scen' = ScenNext(scen, usage1, out.read2,
                               out.state.disk_alert_last_sent_date # None)
           /\ alert_log' =
                 IF out.sent THEN [sent_on |-> today, exceeded |-> FALSE]
                 ELSE [alert_log EXCEPT !.exceeded =
                          \/ @
                          \/ usage1 > resolution_threshold_percent(disk)
                          \/ out.read2 > resolution_threshold_percent(disk)]
    /\ UNCHANGED <<today, disk>>
    /\ UNCHANGED rot_vars
    /\ UNCHANGED <<persist_vars, scan_vars, run_vars, sched>>

\* midnight: date.today() moves on
NextDay ==
    /\ today < MaxDay
    /\ today' = today + 1
    /\ day_log' = [checks |-> 0, alerts |-> 0, all_low |-> TRUE]
    /\ UNCHANGED <<state, file, disk, last_check, scen>>
    /\ UNCHANGED rot_vars
    /\ UNCHANGED ext_vars

\* the process exits and a new one constructs StateManager(), run.py:46
Restart ==
    /\ state' = _load_state(file)
    /\ UNCHANGED <<file, today, disk, last_check, day_log, scen>>
    /\ UNCHANGED rot_vars
    /\ UNCHANGED ext_vars

NextDisk ==
    \/ \E u1, u2 \in DiskUsages : CheckDiskSpace(u1, u2)
    \/ NextDay
    \/ Restart

SpecDisk == InitDisk /\ [][NextDisk]_vars

\* ---- the disk check under the configurations validation accepts ----
\* DiskConfig: threshold_percent and margin_percent are each ge=0, le=100;
\* no condition relates the two
MaxPercent == 100

Percentages == 0..MaxPercent

ValidDiskConfigs ==
    [threshold_percent : {10, 95, MaxPercent}, margin_percent : {0, 5}]

ThresholdUsages == {9, 94, MaxPercent, OSError}

InitThresholds ==
    /\ RotIdle
    /\ ExtIdle
    /\ state = _load_state(Absent)
    /\ file = Absent
    /\ today = 1
    /\ disk \in ValidDiskConfigs
    /\ last_check = Absent
    /\ day_log = [checks |-> 0, alerts |-> 0, all_low |-> TRUE]
    /\ scen = [pos |-> 0, flags |-> <<>>]

NextThresholds ==
    \/ \E u1, u2 \in ThresholdUsages : CheckDiskSpace(u1, u2)
    \/ NextDay
    \/ Restart

SpecThresholds == InitThresholds /\ [][NextThresholds]_vars

\* ---- the disk check and the notifier ----
\* _send_message after its retries: the message was posted, or the last
\* attempt's exception is raised
SendOutcomes == {"ok", "HTTPError"}

\* send_low_disk_alert: try _send_message, except Exception: log; nothing
\* escapes, and the caller is not told whether the message was delivered
send_low_disk_alert(outcome) ==
    [raised |-> FALSE, delivered |-> outcome = "ok"]

\* check_disk_space with the outcome of the notifier's delivery: the result
\* of the check and whether a low-disk alert reached the channel
check_disk_space_notified(cfg, st, f, date_today, usage1, usage2, outcome) ==
    LET alert == should_alert(cfg, usage1)
        notified == send_low_disk_alert(outcome)
    IN  IF ~alert.raised /\ alert.should_alert /\ should_send_disk_alert(st, date_today)
          THEN IF notified.raised
                 THEN [check |-> CheckResult(st, f, NotRead, FALSE, FALSE, TRUE),
                       delivered |-> FALSE]
                 ELSE \* run.py:174-175: mark_disk_alert_sent follows the await
                      [check |-> check_disk_space(cfg, st, f, date_today, usage1, usage2),
                       delivered |-> notified.delivered]
          ELSE [check |-> check_disk_space(cfg, st, f, date_today, usage1, usage2),
                delivered |-> FALSE]

DeliveryUsages == {9, 11, 16, OSError}

CheckDiskSpaceNotified(usage1, usage2, outcome) ==
    /\ day_log.checks < MaxChecks
    /\ \E chk \in {check_disk_space_notified(disk, state, file, today,
                                             usage1, usage2, outcome)} :
          /\ state' = chk.check.state
          /\ file' = chk.check.file
          /\ last_check' = [read1 |-> usage1, read2 |-> chk.check.read2,
                            sent |-> chk.check.sent, cleared |-> chk.check.cleared,
                            raised |-> chk.check.raised, delivered |-> chk.delivered]
          /\ day_log' = [checks |-> day_log.checks + 1,
                         alerts |-> day_log.alerts + (IF chk.check.sent THEN 1 ELSE 0),
                         all_low |-> day_log.all_low /\ ~Raises(usage1)
                                       /\ usage1 < disk.threshold_percent]
          /\ scen' = ScenNext(scen, usage1, chk.check.read2,
                              chk.check.state.disk_alert_last_sent_date # None)
          /\ alert_log' =
                IF chk.check.sent THEN [sent_on |-> today, exceeded |-> FALSE]
                ELSE [alert_log EXCEPT !.exceeded =
                         \/ @
                         \/ usage1 > resolution_threshold_percent(disk)
                         \/ chk.check.read2 > resolution_threshold_percent(disk)]
    /\ UNCHANGED <<today, disk>>
    /\ UNCHANGED rot_vars
    /\ UNCHANGED <<persist_vars, scan_vars, run_vars, sched>>

NextDelivery ==
    \/ \E u1, u2 \in DeliveryUsages : \E outcome \in SendOutcomes :
          CheckDiskSpaceNotified(u1, u2, outcome)
    \/ NextDay
    \/ Restart

SpecDelivery == InitDisk /\ [][NextDelivery]_vars

\* ---- the StateManager operations, called in any order ----
InitStore ==
    /\ RotIdle
    /\ ExtIdle
    /\ StoreIdle

GetProjectState(pid) ==
    /\ state' = get_project_state(state, pid)
    /\ UNCHANGED <<file, today, disk, last_check, day_log, scen>>
    /\ UNCHANGED rot_vars
    /\ UNCHANGED ext_vars

RecordDeletion(pid, file_size_bytes) ==
    /\ pid \in DOMAIN state.projects
          => state.projects[pid].deleted_files_count < MaxDeletions
    /\ state' = record_deletion(state, pid, file_size_bytes, today)
    /\ file' = save_state(state')
    /\ UNCHANGED <<today, disk, last_check, day_log, scen>>
    /\ UNCHANGED rot_vars
    /\ UNCHANGED ext_vars

MarkDiskAlertSent ==
    /\ state' = mark_disk_alert_sent(state, today)
    /\ file' = save_state(state')
    /\ UNCHANGED <<today, disk, last_check, day_log, scen>>
    /\ UNCHANGED rot_vars
    /\ UNCHANGED ext_vars

ClearDiskAlert ==
    /\ state' = clear_disk_alert(state)
    /\ file' = save_state(state')
    /\ UNCHANGED <<today, disk, last_check, day_log, scen>>
    /\ UNCHANGED rot_vars
    /\ UNCHANGED ext_vars

MarkWeeklyReportSent ==
    /\ state' = mark_weekly_report_sent(state, today)
    /\ file' = save_state(state')
    /\ UNCHANGED <<today, disk, last_check, day_log, scen>>
    /\ UNCHANGED rot_vars
    /\ UNCHANGED ext_vars

ResetAllDeletionStats ==
    /\ state' = reset_all_deletion_stats(state)
    /\ file' = save_state(state')
    /\ UNCHANGED <<today, disk, last_check, day_log, scen>>
    /\ UNCHANGED rot_vars
    /\ UNCHANGED ext_vars

StoreNextDay ==
    /\ today < MaxDay
    /\ today' = today + 1
    /\ UNCHANGED <<state, file, disk, last_check, day_log, scen>>
    /\ UNCHANGED rot_vars
    /\ UNCHANGED ext_vars

NextStore ==
    \/ \E pid \in Projects : GetProjectState(pid)
    \/ \E pid \in Projects, sz \in FileSizes : RecordDeletion(pid, sz)
    \/ MarkDiskAlertSent
    \/ ClearDiskAlert
    \/ MarkWeeklyReportSent
    \/ ResetAllDeletionStats
    \/ StoreNextDay
    \/ Restart

SpecStore == InitStore /\ [][NextStore]_vars


\* ---- the store when a save may die or fail half way, and the file it finds ----
StaleProject == "p0"    \* has an entry in the state file, is not configured

\* a state file some earlier run saved
SavedStateFile ==
    save_state([last_weekly_report_timestamp |-> None, disk_alert_last_sent_date |-> None,
                projects |-> (StaleProject :>
                                [project_id |-> StaleProject, last_deletion_timestamp |-> 1,
                                 deleted_files_count |-> 2, deleted_files_size_bytes |-> 30])])

\* what the state file may hold when a process starts
StateFiles ==
    {Absent, SavedStateFile, EmptyText, PartialText, [json |-> "array"],
     [data |-> [disk_alert_last_sent_date |-> 1]],
     [data |-> [projects |-> ("p1" :> [project_id |-> "p1"])]],
     [data |-> [projects |-> ("p1" :> [project_id |-> "p1", size |-> 3])]],
     [data |-> [projects |-> ("p1" :> [deleted_files_count |-> 1])]]}

StoreOps ==
    {"record_deletion", "mark_disk_alert_sent", "clear_disk_alert",
     "mark_weekly_report_sent", "reset_all_deletion_stats"}

\* GlobalState after the in-memory half of a StateManager operation
apply_op(op, st, now) ==
    CASE op = "record_deletion" -> record_deletion(st, "p1", 10, now)
      [] op = "mark_disk_alert_sent" -> mark_disk_alert_sent(st, now)
      [] op = "clear_disk_alert" -> clear_disk_alert(st)
      [] op = "mark_weekly_report_sent" -> mark_weekly_report_sent(st, now)
      [] op = "reset_all_deletion_stats" -> reset_all_deletion_stats(st)

OpAllowed(op) ==
    (op = "record_deletion" /\ "p1" \in DOMAIN state.projects)
        => state.projects["p1"].deleted_files_count < MaxDeletions

\* failing save_state calls since the file last matched what the process holds
RaisesInRow == IF save_log = Absent THEN 0 ELSE save_log.raises

PersistFrame ==
    /\ UNCHANGED <<today, disk, last_check, day_log, scen, alert_log>>
    /\ UNCHANGED <<scan_vars, run_vars, sched>>
    /\ UNCHANGED rot_vars

InitPersist ==
    /\ RotIdle
    /\ file \in StateFiles
    /\ state = _load_state(file)
    /\ today = 1
    /\ disk = ScenarioDisk
    /\ last_check = Absent
    /\ day_log = [checks |-> 0, alerts |-> 0, all_low |-> TRUE]
    /\ scen = [pos |-> 0, flags |-> <<>>]
    /\ alert_log = [sent_on |-> None, exceeded |-> FALSE]
    /\ tmp_file \in {Absent, PartialText}
    /\ save_log = Absent
    /\ listing = <<>> /\ scan_cfg = Absent /\ scanned = Absent
    /\ fs = <<>> /\ dry_run = TRUE /\ run_log = Absent /\ recorded = {}
    /\ sched = SchedOff

\* a StateManager operation whose save_state runs to its end
SaveCompletes(op) ==
    /\ OpAllowed(op)
    /\ state' = apply_op(op, state, today)
    /\ LET done == save_state_upto(state', file, tmp_file, 5)
       IN  file' = done.file /\ tmp_file' = done.tmp
    /\ save_log' = [op |-> op, new |-> save_state(state'), step |-> 5,
                    outcome |-> "returned", raises |-> 0]
    /\ PersistFrame

\* the process dies when save_state has completed `step` steps; the next process
\* constructs StateManager() and loads what is on disk
SaveCrashes(op, step) ==
    /\ OpAllowed(op)
    /\ LET new_state == apply_op(op, state, today)
           left == save_state_upto(new_state, file, tmp_file, step)
       IN  /\ file' = left.file
           /\ tmp_file' = left.tmp
           /\ ~_load_state_escapes(left.file)
           /\ state' = _load_state(left.file)
           /\ save_log' = [op |-> op, new |-> save_state(new_state), step |-> step,
                           outcome |-> "crashed", raises |-> 0]
    /\ PersistFrame

\* an OSError is raised inside save_state after `step` steps (open, write or
\* replace fails); the handler at state_manager.py:144 logs it and returns
SaveRaises(op, step) ==
    /\ OpAllowed(op)
    /\ step < 5
    /\ RaisesInRow < MaxRaises
    /\ state' = apply_op(op, state, today)
    /\ LET left == save_state_upto(state', file, tmp_file, step)
       IN  file' = left.file /\ tmp_file' = left.tmp
    /\ save_log' = [op |-> op, new |-> save_state(state'), step |-> step,
                    outcome |-> "raised", raises |-> RaisesInRow + 1]
    /\ PersistFrame

NextPersist ==
    \/ \E op \in StoreOps : SaveCompletes(op)
    \/ \E op \in StoreOps, step \in SaveSteps : SaveCrashes(op, step)
    \/ \E op \in StoreOps, step \in SaveSteps : SaveRaises(op, step)
    \/ Restart

SpecPersist == InitPersist /\ [][NextPersist]_vars


\* ------------------------------------------------------------------------
\* BackupRotator.process_project, run_once, send_weekly_summary (src/run.py)
\* A handler works on a record w: the store (state, file), the files on disk
\* (fs), the events handed to the notifier, and a log of what it did.
\* ------------------------------------------------------------------------
\* config.projects, in configuration order
ConfigProjects == <<"p1", "p2">>

\* backup k of a project directory is dated 2025-01-k and holds 10 * k bytes
BackupOnDisk(pid, k) ==
    [path |-> k, timestamp |-> <<2025, 1, k, 3>>, size_bytes |-> 10 * k, project_id |-> pid]

\* scan_project_backups on a directory of valid backups: one record per file
ValidBackups(pid, ids) ==
    SelectSeq([k \in 1..MaxFiles |-> BackupOnDisk(pid, k)], LAMBDA b : b.path \in ids)

Event(name, pid, k) == [event |-> name, project |-> pid, file |-> k]

\* the local variables of process_project, before the deletion loop
ProjectLocals(w) ==
    [w EXCEPT !.attempted = <<>>, !.failed = <<>>, !.record_calls = <<>>,
              !.deleted_count = 0, !.deleted_size = 0]

\* mutant of delete_one: the run's counters and the state are updated before
\* the file is unlinked
delete_one_CountFirst(w, pid, backup, fails, dry, now) ==
    IF dry
      THEN [w EXCEPT !.attempted = Append(@, backup.path),
                     !.deleted_count = @ + 1,
                     !.deleted_size = @ + backup.size_bytes]
      ELSE LET st == record_deletion(w.state, pid, backup.size_bytes, now)
               counted == [w EXCEPT !.attempted = Append(@, backup.path),
                                    !.deleted_count = @ + 1,
                                    !.deleted_size = @ + backup.size_bytes,
                                    !.state = st, !.file = save_state(st),
                                    !.recorded = @ \cup {pid},
                                    !.record_calls = Append(@, backup.path)]
           IN  IF backup.path \in fails
                 THEN [counted EXCEPT !.failed = Append(@, backup.path),
                          !.events = Append(@, Event("deletion_failure", pid, backup.path))]
                 ELSE [counted EXCEPT !.fs[pid] = @ \ {backup.path}]

\* mutant of delete_one: the dry_run flag is not looked at
delete_one_IgnoreDryRun(w, pid, backup, fails, dry, now) ==
    IF backup.path \in fails
      THEN [w EXCEPT !.attempted = Append(@, backup.path),
                     !.failed = Append(@, backup.path),
                     !.events = Append(@, Event("deletion_failure", pid, backup.path))]
    ELSE LET st == record_deletion(w.state, pid, backup.size_bytes, now)
         IN  [w EXCEPT !.attempted = Append(@, backup.path),
                       !.fs[pid] = @ \ {backup.path},
                       !.deleted_count = @ + 1,
                       !.deleted_size = @ + backup.size_bytes,
                       !.state = st, !.file = save_state(st),
                       !.recorded = @ \cup {pid},
                       !.record_calls = Append(@, backup.path)]

\* one pass of the deletion loop, run.py:120-140; unlink raises for the files
\* in `fails`
delete_one(w, pid, backup, fails, dry, now) ==
    IF dry
      THEN [w EXCEPT !.attempted = Append(@, backup.path),
                     !.deleted_count = @ + 1,
                     !.deleted_size = @ + backup.size_bytes]
    ELSE IF backup.path \in fails
      THEN [w EXCEPT !.attempted = Append(@, backup.path),
                     !.failed = Append(@, backup.path),
                     !.events = Append(@, Event("deletion_failure", pid, backup.path))]
    ELSE LET st == record_deletion(w.state, pid, backup.size_bytes, now)
         IN  [w EXCEPT !.attempted = Append(@, backup.path),
                       !.fs[pid] = @ \ {backup.path},
                       !.deleted_count = @ + 1,
                       !.deleted_size = @ + backup.size_bytes,
                       !.state = st, !.file = save_state(st),
                       !.recorded = @ \cup {pid},
                       !.record_calls = Append(@, backup.path)]

RECURSIVE deletion_loop(_, _, _, _, _, _, _)
deletion_loop(w, pid, dels, i, fails, dry, now) ==
    IF i > Len(dels) THEN w
    ELSE deletion_loop(delete_one(w, pid, dels[i], fails, dry, now),
                       pid, dels, i + 1, fails, dry, now)

\* the deletion list process_project computes for a project directory
DeletionList(retention, pid, ids) ==
    calculate_deletions(
        create_rotation_engine(retention.daily, retention.weekly, retention.monthly),
        ValidBackups(pid, ids))

\* the BackupStats process_project returns and this log entry of the run
ProjectLog(w, pid, valid_backups, dry) ==
    [project |-> pid, raised |-> FALSE,
     attempted |-> w.attempted, failed |-> w.failed, record_calls |-> w.record_calls,
     deleted_count |-> w.deleted_count, deleted_size |-> w.deleted_size,
     stats_total_count |-> Len(valid_backups) - w.deleted_count,
     stats_deleted_count |->
         IF ~dry THEN w.state.projects[pid].deleted_files_count ELSE w.deleted_count]

\* process_project that does not raise, run.py:61-167
process_project(w, pid, retention, fails, dry, now) ==
    LET valid_backups == ValidBackups(pid, w.fs[pid])
        \* detect_stale_backups: a directory without valid backups is stale
        alerted == IF valid_backups = <<>>
                     THEN [w EXCEPT !.events = Append(@, Event("missing_backup", pid, 0))]
                     ELSE w
        dels == DeletionList(retention, pid, w.fs[pid])
        looped == deletion_loop(ProjectLocals(alerted), pid, dels, 1, fails, dry, now)
        \* run.py:148: get_project_state creates the entry in memory
        got == [looped EXCEPT !.state = get_project_state(looped.state, pid)]
    IN  [got EXCEPT !.projects = Append(@, ProjectLog(got, pid, valid_backups, dry)),
                    !.trace = Append(@, pid)]

\* process_project raises before its deletion loop (the scan, the staleness
\* check or the engine raises) and the caller's handler emits a general error
project_raised(w, pid) ==
    [w EXCEPT !.events = Append(@, Event("general_error", pid, 0)),
              !.projects = Append(@, [project |-> pid, raised |-> TRUE,
                                      attempted |-> <<>>, failed |-> <<>>,
                                      record_calls |-> <<>>, deleted_count |-> 0,
                                      deleted_size |-> 0, stats_total_count |-> 0,
                                      stats_deleted_count |-> 0]),
              !.trace = Append(@, pid)]


RECURSIVE projects_loop(_, _, _, _, _, _, _)
\* for project_config in self.config.projects: try process_project, except
\* Exception: send_general_error (run.py:217-224 and 190-200)
projects_loop(w, i, raises, fails, retention, dry, now) ==
    IF i > Len(ConfigProjects) THEN w
    ELSE LET pid == ConfigProjects[i]
             next == IF pid \in raises
                       THEN project_raised(w, pid)
                       ELSE process_project(w, pid, retention, fails[pid], dry, now)
         IN  projects_loop(next, i + 1, raises, fails, retention, dry, now)

\* check_disk_space as the last step of run_once, run.py:226-233
disk_step(w, cfg, now, usage1, usage2) ==
    LET chk == check_disk_space(cfg, w.state, w.file, now, usage1, usage2)
        sent == IF chk.sent THEN Append(w.events, Event("low_disk", "", 0)) ELSE w.events
    IN  [w EXCEPT !.state = chk.state, !.file = chk.file,
                  !.events = IF chk.raised
                               THEN Append(sent, Event("general_error", "", 0))
                               ELSE sent,
                  !.trace = Append(@, "check_disk_space")]

\* mutant of run_once: no try around process_project, the first project that
\* raises ends the run in the outer handler
run_once_NoIsolation(w, raises, fails, retention, dry, now, cfg, usage1, usage2) ==
    IF raises # {}
      THEN [w EXCEPT !.events = Append(@, Event("general_error", "", 0))]
      ELSE disk_step(projects_loop(w, 1, raises, fails, retention, dry, now),
                     cfg, now, usage1, usage2)

\* run_once, run.py:211-233
run_once(w, raises, fails, retention, dry, now, cfg, usage1, usage2) ==
    disk_step(projects_loop(w, 1, raises, fails, retention, dry, now),
              cfg, now, usage1, usage2)

\* send_weekly_summary, run.py:183-209: the projects are processed, the stats
\* go to the notifier, then the report is marked and the counters are reset
send_weekly_summary(w, raises, fails, retention, dry, now) ==
    LET after == projects_loop(w, 1, raises, fails, retention, dry, now)
        marked == mark_weekly_report_sent(after.state, now)
        reset == reset_all_deletion_stats(marked)
    IN  [after EXCEPT
            !.events = Append(@, Event("weekly_summary", "", 0)),
            !.state = reset,
            !.file = save_state(reset),
            !.trace = @ \o <<"send_weekly_summary", "mark_weekly_report_sent",
                             "reset_all_deletion_stats">>]

\* ---- runs of the rotator: run_once and the weekly summary, in either mode ----
ConfigIds == {ConfigProjects[i] : i \in DOMAIN ConfigProjects}

\* the state file earlier runs left: deletions were recorded for a project
\* that is no longer configured and for the first configured project
EarlierRunsFile ==
    save_state(record_deletion(record_deletion(_load_state(SavedStateFile), "p1", 20, 1),
                               "p1", 10, 1))

RunPolicy == [daily |-> 1, weekly |-> 0, monthly |-> 0]

RunUsages == {9}

\* the handler's view of the program state when it starts
World ==
    [state |-> state, file |-> file, fs |-> fs, recorded |-> recorded,
     events |-> <<>>, projects |-> <<>>, trace |-> <<>>,
     attempted |-> <<>>, failed |-> <<>>, record_calls |-> <<>>,
     deleted_count |-> 0, deleted_size |-> 0]

\* paths of the deletion list of each configured project, as the disk is now
DeletionPaths ==
    [pid \in ConfigIds |->
        LET dels == DeletionList(Retention(project_retention, default_retention),
                                 pid, fs[pid])
        IN  {dels[i].path : i \in DOMAIN dels}]

\* unlink can fail for files of the deletion list, in execute mode
FailChoices(raises) ==
    LET candidates ==
            IF dry_run THEN {}
            ELSE {c \in (ConfigIds \ raises) \X (1..MaxFiles) : c[2] \in DeletionPaths[c[1]]}
    IN  {[pid \in ConfigIds |-> {k \in 1..MaxFiles : <<pid, k>> \in failing}] :
            failing \in {sub \in SUBSET candidates : Cardinality(sub) <= MaxFails}}

RunFrame ==
    /\ UNCHANGED <<today, disk, last_check, day_log, scen, alert_log>>
    /\ UNCHANGED <<persist_vars, scan_vars>>
    /\ UNCHANGED rot_vars

\* the configuration, the state file and the backup directories a process finds
RunWorld ==
    /\ backups = <<>>
    /\ project_retention = RunPolicy
    /\ default_retention = [daily |-> 1, weekly |-> 1, monthly |-> 1]
    /\ engine = Absent
    /\ deletions = <<>>
    /\ rot_pc = "idle"
    /\ file \in {Absent, EarlierRunsFile}
    /\ state = _load_state(file)
    /\ today = 1
    /\ disk = ScenarioDisk
    /\ last_check = Absent
    /\ day_log = [checks |-> 0, alerts |-> 0, all_low |-> TRUE]
    /\ scen = [pos |-> 0, flags |-> <<>>]
    /\ alert_log = [sent_on |-> None, exceeded |-> FALSE]
    /\ tmp_file = Absent /\ save_log = Absent
    /\ listing = <<>> /\ scan_cfg = Absent /\ scanned = Absent
    /\ fs \in [ConfigIds -> {{}, 1..MaxFiles}]
    /\ dry_run \in BOOLEAN
    /\ run_log = Absent
    /\ recorded = DOMAIN _load_state(file).projects

InitRun ==
    /\ RunWorld
    /\ sched = SchedOff

\* flips with every handler run, so that two runs with equal logs differ
Tick == IF run_log = Absent THEN FALSE ELSE run_log.tick

\* the handler's result w becomes the program state and the log of the run
Finish(handler, w) ==
    /\ state' = w.state
    /\ file' = w.file
    /\ fs' = w.fs
    /\ recorded' = w.recorded
    /\ run_log' = [handler |-> handler, projects |-> w.projects, trace |-> w.trace,
                   events |-> w.events, tick |-> ~Tick]
    /\ UNCHANGED dry_run
    /\ RunFrame

RunOnce(raises, fails, usage) ==
    /\ \E w \in {run_once(World, raises, fails,
                          Retention(project_retention, default_retention),
                          dry_run, today, disk, usage, usage)} :
          Finish("run_once", w)
    /\ UNCHANGED sched

SendWeeklySummary(raises, fails) ==
    /\ \E w \in {send_weekly_summary(World, raises, fails,
                                     Retention(project_retention, default_retention),
                                     dry_run, today)} :
          Finish("send_weekly_summary", w)
    /\ UNCHANGED sched

NextRun ==
    \/ \E raises \in SUBSET ConfigIds : \E fails \in FailChoices(raises) :
          \E usage \in RunUsages : RunOnce(raises, fails, usage)
    \/ \E raises \in SUBSET ConfigIds : \E fails \in FailChoices(raises) :
          SendWeeklySummary(raises, fails)
    \/ Restart

SpecRun == InitRun /\ [][NextRun]_vars

\* ---- scheduler mode: main without --once and --send-weekly-now ----
\* asyncio.run(coroutine): RuntimeError when called while an event loop is
\* running in the same thread, otherwise the coroutine runs to its end
asyncio_run(loop_running) == IF loop_running THEN "RuntimeError" ELSE "none"

InitSched ==
    /\ RunWorld
    /\ sched = [pc |-> "main", loop_running |-> FALSE, due |-> FALSE]

\* main: asyncio.run(rotator.run_with_scheduler()); run_with_scheduler
\* schedules the weekly job, runs the initial rotation and enters its loop
RunWithScheduler(raises, fails, usage) ==
    /\ sched.pc = "main"
    /\ \E w \in {run_once(World, raises, fails,
                          Retention(project_retention, default_retention),
                          dry_run, today, disk, usage, usage)} :
          Finish("run_once", w)
    /\ sched' = [pc |-> "loop", loop_running |-> TRUE, due |-> FALSE]

\* the configured weekday and time of the weekly report arrive
ReportTimeArrives ==
    /\ sched.pc = "loop"
    /\ ~sched.due
    /\ sched' = [sched EXCEPT !.due = TRUE]
    /\ UNCHANGED <<rot_vars, store_vars, alert_log, persist_vars, scan_vars, run_vars>>

\* one round of the loop: schedule.run_pending(), then sleep(60). A due job
\* is the lambda of schedule_weekly_report; what it raises leaves
\* run_pending, the loop (which handles KeyboardInterrupt only) and
\* run_with_scheduler, and main returns 1
RunPending(raises, fails) ==
    /\ sched.pc = "loop"
    /\ IF ~sched.due
         THEN UNCHANGED vars
       ELSE IF asyncio_run(sched.loop_running) # "none"
         THEN /\ sched' = [pc |-> "fatal", loop_running |-> FALSE, due |-> TRUE]
              /\ UNCHANGED <<rot_vars, store_vars, alert_log, persist_vars,
                             scan_vars, run_vars>>
       ELSE /\ \E w \in {send_weekly_summary(World, raises, fails,
                              Retention(project_retention, default_retention),
                              dry_run, today)} :
                  Finish("send_weekly_summary", w)
            /\ sched' = [sched EXCEPT !.due = FALSE]

NextSched ==
    \/ \E raises \in SUBSET ConfigIds : \E fails \in FailChoices(raises) :
          \E usage \in RunUsages : RunWithScheduler(raises, fails, usage)
    \/ ReportTimeArrives
    \/ \E raises \in SUBSET ConfigIds : \E fails \in FailChoices(raises) :
          RunPending(raises, fails)

SpecSched == InitSched /\ [][NextSched]_vars


\* ------------------------------------------------------------------------
\* BackupScanner (src/src/backup_scanner.py)
\* A filename is [parts, fuzzy]: parts is filename.split("."), each part the
\* sequence part.split("_") of its tokens; fuzzy is what dateutil's fuzzy
\* parser does with this name. A datetime format is the sequence of its
\* directive groups between the "_" it contains.
\* ------------------------------------------------------------------------
\* no datetime: strptime raised ValueError, or the function returns None
NoMatch == <<>>

DateTokens == {"20240115", "20240116"}

TimeTokens == {"030000"}

DatetimeFormats == {<<"%Y%m%d">>, <<"%H%M%S">>, <<"%Y%m%d", "%H%M%S">>}

\* the year, month and day the digits of a date token stand for
DateOf(token) == IF token = "20240115" THEN <<2024, 1, 15>> ELSE <<2024, 1, 16>>

\* the hour the digits of a time token stand for
HourOf(token) == 3

\* the regular expression of one directive group matches the whole token
DirectiveMatches(directive, token) ==
    \/ directive = "%Y%m%d" /\ token \in DateTokens
    \/ directive = "%H%M%S" /\ token \in TimeTokens

\* datetime.strptime(string, fmt): the whole string has to match the format;
\* fields the format does not set are those of 1900-01-01 00:00
strptime(string, fmt) ==
    IF /\ Len(string) = 1
       /\ Len(string[1]) = Len(fmt)
       /\ \A i \in DOMAIN fmt : DirectiveMatches(fmt[i], string[1][i])
      THEN LET dates == {i \in DOMAIN fmt : fmt[i] = "%Y%m%d"}
               times == {i \in DOMAIN fmt : fmt[i] = "%H%M%S"}
               ymd == IF dates = {} THEN <<1900, 1, 1>>
                      ELSE DateOf(string[1][CHOOSE i \in dates : TRUE])
               hour == IF times = {} THEN 0
                       ELSE HourOf(string[1][CHOOSE i \in times : TRUE])
           IN  <<ymd[1], ymd[2], ymd[3], hour>>
      ELSE NoMatch

\* for one part: its subparts in order, then the part itself
PartAttempts(part) ==
    [i \in DOMAIN part |-> [strategy |-> "subpart", string |-> <<<<part[i]>>>>]]
        \o <<[strategy |-> "part", string |-> <<part>>]>>

RECURSIVE parts_loop(_)
parts_loop(parts) ==
    IF parts = <<>> THEN <<>>
    ELSE PartAttempts(Head(parts)) \o parts_loop(Tail(parts))

\* the strings one format is tried on, in the order of the code
attempts(filename) ==
    <<[strategy |-> "filename", string |-> filename.parts]>>
        \o parts_loop(filename.parts)
        \o <<[strategy |-> "base_name", string |-> <<filename.parts[1]>>]>>

NoHit == [dt |-> NoMatch, format |-> 0, strategy |-> "none"]

\* the body of the loop over datetime_formats for the format at index k
try_format(filename, datetime_formats, k) ==
    LET tried == attempts(filename)
        hits == {i \in DOMAIN tried :
                    strptime(tried[i].string, datetime_formats[k]) # NoMatch}
    IN  IF hits = {} THEN NoHit
        ELSE LET first == CHOOSE i \in hits : \A j \in hits : i <= j
             IN  [dt |-> strptime(tried[first].string, datetime_formats[k]),
                  format |-> k, strategy |-> tried[first].strategy]

RECURSIVE formats_loop(_, _, _)
formats_loop(filename, datetime_formats, k) ==
    IF k > Len(datetime_formats) THEN NoHit
    ELSE LET hit == try_format(filename, datetime_formats, k)
         IN  IF hit.dt # NoMatch THEN hit
             ELSE formats_loop(filename, datetime_formats, k + 1)

\* the loops exchanged: each string in turn is tried with every format
RECURSIVE strategies_loop(_, _, _)
strategies_loop(filename, datetime_formats, s) ==
    IF s > Len(attempts(filename)) THEN NoHit
    ELSE LET tried == attempts(filename)[s]
             hits == {k \in DOMAIN datetime_formats :
                         strptime(tried.string, datetime_formats[k]) # NoMatch}
         IN  IF hits = {} THEN strategies_loop(filename, datetime_formats, s + 1)
             ELSE LET first == CHOOSE k \in hits : \A j \in hits : k <= j
                  IN  [dt |-> strptime(tried.string, datetime_formats[first]),
                       format |-> first, strategy |-> tried.strategy]

\* dateutil_parser.parse(filename, fuzzy=True) inside try / except Exception
fuzzy_parse(filename, hit) ==
    IF hit.dt # NoMatch
      THEN [dt |-> hit.dt, format |-> hit.format, strategy |-> hit.strategy,
            fuzzy_called |-> FALSE, escapes |-> FALSE]
    ELSE IF filename.fuzzy.raised = "none"
      THEN [dt |-> filename.fuzzy.dt, format |-> 0, strategy |-> "fuzzy",
            fuzzy_called |-> TRUE, escapes |-> FALSE]
    ELSE [dt |-> NoMatch, format |-> 0, strategy |-> "none",
          fuzzy_called |-> TRUE, escapes |-> ~IsException(filename.fuzzy.raised)]

\* mutant of _parse_datetime_from_filename: strategy by strategy
_parse_datetime_from_filename_StrategyMajor(filename, datetime_formats) ==
    fuzzy_parse(filename, strategies_loop(filename, datetime_formats, 1))

_parse_datetime_from_filename(filename, datetime_formats) ==
    fuzzy_parse(filename, formats_loop(filename, datetime_formats, 1))

\* BackupFile.size_mb and the size_mb of the scan: size_bytes / (1024 * 1024),
\* kept as the fraction it is
size_mb(size_bytes) == [num |-> size_bytes, den |-> 1024 * 1024]

\* min_file_size_mb * 1024 * 1024, for a minimum of num / den megabytes
min_size_bytes(min_file_size_mb) ==
    (min_file_size_mb.num * 1024 * 1024) \div min_file_size_mb.den

\* re.compile(filename_pattern).match(filename) for a pattern that is a
\* literal first token followed by anything
pattern_match(filename_pattern, filename) == filename.parts[1][1] = filename_pattern

NewBackupFile(item, timestamp, project_id) ==
    [path |-> item.name, filename |-> item.name, timestamp |-> timestamp,
     size_bytes |-> item.stat, project_id |-> project_id]

\* mutant of scan_item: the timestamp is parsed before the size is checked
scan_item_ParseFirst(item, cfg, acc) ==
    IF ~item.is_file THEN acc
    ELSE IF ~pattern_match(cfg.filename_pattern, item.name) THEN acc
    ELSE IF item.stat = OSError THEN acc
    ELSE LET timestamp ==
                 _parse_datetime_from_filename(item.name, cfg.datetime_formats).dt
         IN  IF timestamp = NoMatch THEN acc
             ELSE IF item.stat < min_size_bytes(cfg.min_file_size_mb)
               THEN [acc EXCEPT !.undersized =
                                   Append(@, <<item.name, size_mb(item.stat)>>)]
             ELSE [acc EXCEPT !.valid =
                                 Append(@, NewBackupFile(item, timestamp, cfg.project_id))]

\* mutant of scan_item: the minimum size is not checked
scan_item_NoSizeCheck(item, cfg, acc) ==
    IF ~item.is_file THEN acc
    ELSE IF ~pattern_match(cfg.filename_pattern, item.name) THEN acc
    ELSE IF item.stat = OSError THEN acc
    ELSE LET timestamp ==
                 _parse_datetime_from_filename(item.name, cfg.datetime_formats).dt
         IN  IF timestamp = NoMatch THEN acc
             ELSE [acc EXCEPT !.valid =
                                 Append(@, NewBackupFile(item, timestamp, cfg.project_id))]

\* one round of the loop over project_path.iterdir()
scan_item(item, cfg, acc) ==
    IF ~item.is_file THEN acc
    ELSE IF ~pattern_match(cfg.filename_pattern, item.name) THEN acc
    ELSE IF item.stat = OSError THEN acc
    ELSE IF item.stat < min_size_bytes(cfg.min_file_size_mb)
      THEN [acc EXCEPT !.undersized = Append(@, <<item.name, size_mb(item.stat)>>)]
    ELSE LET timestamp ==
                 _parse_datetime_from_filename(item.name, cfg.datetime_formats).dt
         IN  IF timestamp = NoMatch THEN acc
             ELSE [acc EXCEPT !.valid =
                                 Append(@, NewBackupFile(item, timestamp, cfg.project_id))]

RECURSIVE iterdir_loop(_, _, _)
iterdir_loop(items, cfg, acc) ==
    IF items = <<>> THEN acc
    ELSE iterdir_loop(Tail(items), cfg, scan_item(Head(items), cfg, acc))

\* scan_project_backups on an existing project directory
scan_project_backups(items, cfg) ==
    iterdir_loop(items, cfg, [valid |-> <<>>, undersized |-> <<>>])

\* ---- what the scanner is applied to ----
FuzzyRaises == {[raised |-> "ParserError", dt |-> NoMatch],
                [raised |-> "OverflowError", dt |-> NoMatch]}

FuzzyOutcomes == FuzzyRaises \cup {[raised |-> "none", dt |-> <<2024, 1, 14, 0>>]}

\* 20240115, 20240115_030000, backup_20240115_030000.tar,
\* 20240115_030000.tar, backup.20240116.20240115_030000, backup.tar,
\* notes_030000.20240116
FilenameParts ==
    {<<<<"20240115">>>>,
     <<<<"20240115", "030000">>>>,
     <<<<"backup", "20240115", "030000">>, <<"tar">>>>,
     <<<<"20240115", "030000">>, <<"tar">>>>,
     <<<<"backup">>, <<"20240116">>, <<"20240115", "030000">>>>,
     <<<<"backup">>, <<"tar">>>>,
     <<<<"notes", "030000">>, <<"20240116">>>>}

Filenames == [parts : FilenameParts, fuzzy : FuzzyOutcomes]

\* the lists of at least one and at most n formats
FormatLists(n) == UNION {[1..k -> DatetimeFormats] : k \in 1..n}

\* backup_20240115.tar, backup.tar, notes_20240115.tar
ScanNames ==
    [parts : {<<<<"backup", "20240115">>, <<"tar">>>>,
              <<<<"backup">>, <<"tar">>>>,
              <<<<"notes", "20240115">>, <<"tar">>>>},
     fuzzy : {[raised |-> "ParserError", dt |-> NoMatch],
              [raised |-> "none", dt |-> <<2024, 1, 14, 0>>]}]

\* st_size: empty, one byte less than a megabyte, a megabyte
StatSizes == {0, 1024 * 1024 - 1, 1024 * 1024}

DirItems ==
    [name : ScanNames, is_file : {TRUE}, stat : StatSizes \cup {OSError}]
        \cup [name : ScanNames, is_file : {FALSE}, stat : {0}]

MinFileSizes == {[num |-> 0, den |-> 1], [num |-> 1, den |-> 2], [num |-> 1, den |-> 1]}

ScanConfigs ==
    [project_id : {"p1"}, filename_pattern : {"backup"},
     datetime_formats : {<<<<"%H%M%S">>>>, <<<<"%Y%m%d">>>>},
     min_file_size_mb : MinFileSizes]

ScanFrame ==
    /\ UNCHANGED rot_vars
    /\ UNCHANGED store_vars
    /\ UNCHANGED <<alert_log, persist_vars, run_vars, sched>>

InitScan ==
    /\ RotIdle
    /\ StoreIdle
    /\ alert_log = [sent_on |-> None, exceeded |-> FALSE]
    /\ tmp_file = Absent /\ save_log = Absent
    /\ fs = <<>> /\ dry_run = TRUE /\ run_log = Absent /\ recorded = {}
    /\ sched = SchedOff
    /\ listing = <<>>
    /\ scan_cfg \in ScanConfigs
    /\ scanned = Absent

\* a directory entry appears; names are unique in a directory
CreateItem(item) ==
    /\ Len(listing) < MaxItems
    /\ \A i \in DOMAIN listing : listing[i].name.parts # item.name.parts
    /\ listing' = Append(listing, item)
    /\ scanned' = Absent
    /\ UNCHANGED scan_cfg
    /\ ScanFrame

ScanProjectBackups ==
    /\ scanned' = scan_project_backups(listing, scan_cfg)
    /\ UNCHANGED <<listing, scan_cfg>>
    /\ ScanFrame

NextScan ==
    \/ \E item \in DirItems : CreateItem(item)
    \/ ScanProjectBackups

SpecScan == InitScan /\ [][NextScan]_vars

\* ---- timestamp extraction on its own ----
InitParse ==
    /\ RotIdle
    /\ StoreIdle
    /\ alert_log = [sent_on |-> None, exceeded |-> FALSE]
    /\ tmp_file = Absent /\ save_log = Absent
    /\ fs = <<>> /\ dry_run = TRUE /\ run_log = Absent /\ recorded = {}
    /\ sched = SchedOff
    /\ listing = <<>>
    /\ scan_cfg \in [project_id : {"p1"}, filename_pattern : {"backup"},
                     datetime_formats : FormatLists(MaxFormats),
                     min_file_size_mb : {[num |-> 0, den |-> 1]}]
    /\ scanned = Absent

ParseDatetimeFromFilename(filename) ==
    /\ scanned' = [filename |-> filename,
                   parsed |-> _parse_datetime_from_filename(
                                  filename, scan_cfg.datetime_formats)]
    /\ UNCHANGED <<listing, scan_cfg>>
    /\ ScanFrame

NextParse == \E filename \in Filenames : ParseDatetimeFromFilename(filename)

SpecParse == InitParse /\ [][NextParse]_vars

\* ---- one project from scan to unlink (process_project, execute mode) ----
ProjectPolicies == [daily : {0, 1}, weekly : {0, 1}, monthly : {0}]

\* backup_20240115.tar, backup_20240116.tar, notes_20240115.tar, and
\* backup.tar, which the fuzzy parser may or may not date
ProjectNames ==
    [parts : {<<<<"backup", "20240115">>, <<"tar">>>>,
              <<<<"backup", "20240116">>, <<"tar">>>>,
              <<<<"backup">>, <<"tar">>>>,
              <<<<"notes", "20240115">>, <<"tar">>>>},
     fuzzy : {[raised |-> "ParserError", dt |-> NoMatch]}]
      \cup {[parts |-> <<<<"backup">>, <<"tar">>>>,
             fuzzy |-> [raised |-> "none", dt |-> <<2024, 1, 14, 0>>]]}

ProjectItems ==
    [name : ProjectNames, is_file : {TRUE},
     stat : {1024 * 1024 - 1, 1024 * 1024, OSError}]
        \cup [name : ProjectNames, is_file : {FALSE}, stat : {0}]

InitProject ==
    /\ StoreIdle
    /\ alert_log = [sent_on |-> None, exceeded |-> FALSE]
    /\ tmp_file = Absent /\ save_log = Absent
    /\ fs = <<>> /\ dry_run = FALSE /\ run_log = Absent /\ recorded = {}
    /\ sched = SchedOff
    /\ backups = <<>>
    /\ project_retention \in ProjectPolicies
    /\ default_retention = [daily |-> 1, weekly |-> 1, monthly |-> 1]
    /\ engine = Absent
    /\ deletions = <<>>
    /\ rot_pc = "scan"
    /\ listing = <<>>
    /\ scan_cfg \in {cfg \in ScanConfigs : cfg.min_file_size_mb = [num |-> 1, den |-> 1]}
    /\ scanned = Absent

\* a directory entry appears before the project is processed
CreateFile(item) ==
    /\ rot_pc = "scan"
    /\ Len(listing) < MaxFiles
    /\ \A i \in DOMAIN listing : listing[i].name.parts # item.name.parts
    /\ listing' = Append(listing, item)
    /\ UNCHANGED <<scan_cfg, scanned>>
    /\ ScanFrame

\* process_project, run.py:76-126: scan, rotation over valid_backups, unlink
\* of every record of the deletion list
ProcessProject ==
    /\ rot_pc = "scan"
    /\ \E scan \in {scan_project_backups(listing, scan_cfg)} :
         \E rotation_engine \in
               {create_rotation_engine(
                    Retention(project_retention, default_retention).daily,
                    Retention(project_retention, default_retention).weekly,
                    Retention(project_retention, default_retention).monthly)} :
           \E dels \in {calculate_deletions(rotation_engine, scan.valid)} :
              /\ scanned' = scan
              /\ backups' = scan.valid
              /\ engine' = rotation_engine
              /\ deletions' = dels
              /\ listing' = SelectSeq(listing,
                                LAMBDA item : item.name \notin {dels[i].path : i \in DOMAIN dels})
    /\ rot_pc' = "done"
    /\ UNCHANGED <<project_retention, default_retention, scan_cfg>>
    /\ UNCHANGED store_vars
    /\ UNCHANGED <<alert_log, persist_vars, run_vars, sched>>

NextProject ==
    \/ \E item \in ProjectItems : CreateFile(item)
    \/ ProcessProject

SpecProject == InitProject /\ [][NextProject]_vars


\* ------------------------------------------------------------------------
\* Disk alert and state store: properties
\* ------------------------------------------------------------------------
Alerting(st) == st.disk_alert_last_sent_date # None

\* the alert state a new process would find in the state file
PersistedAlerting == Alerting(_load_state(file))

\* the step is one invocation of check_disk_space
CheckStep == day_log'.checks = day_log.checks + 1

InBand(u) ==
    /\ ~Raises(u)
    /\ u >= disk.threshold_percent
    /\ u <= disk.threshold_percent + disk.margin_percent

ScenarioAlerting == <<TRUE, TRUE, TRUE, FALSE>>

\* C7: the persisted alert state turns ALERTING exactly on a check whose sample is
\* strictly below the trigger, turns OK only on a check whose sample is strictly
\* above trigger + margin, and a sample inside [T, T+M] changes nothing; with
\* T = 10, M = 5 the checks sampling 9, 11, 14, 16 leave it ALERTING, ALERTING,
\* ALERTING, OK
C7_Hysteresis ==
    /\ [][ /\ (~PersistedAlerting /\ PersistedAlerting')
                <=> ( /\ ~PersistedAlerting
                      /\ CheckStep
                      /\ ~Raises(last_check'.read1)
                      /\ last_check'.read1 < disk.threshold_percent )
           /\ (PersistedAlerting /\ ~PersistedAlerting')
                => ( /\ CheckStep
                     /\ last_check'.read2 >= 0
                     /\ last_check'.read2 > disk.threshold_percent + disk.margin_percent )
           /\ ( /\ CheckStep
                /\ InBand(last_check'.read1)
                /\ (last_check'.read2 = NotRead \/ InBand(last_check'.read2)) )
                => (state' = state /\ file' = file /\ ~last_check'.sent)
         ]_vars
    /\ [](disk = ScenarioDisk => scen.flags = Take(ScenarioAlerting, scen.pos))

C7_Witness ==
    /\ disk = ScenarioDisk
    /\ scen = [pos |-> 4, flags |-> ScenarioAlerting]
    /\ last_check.read1 = 16 /\ last_check.cleared
    /\ ~PersistedAlerting

\* C8: a check whose disk read fails sends no alert and raises nothing; a failed
\* read of is_resolved clears nothing; when both reads fail the in-memory state
\* and the state file are left as they were
C8_ReadFailureNoAlert ==
    [][ CheckStep =>
          /\ Raises(last_check'.read1)
                => ( /\ ~last_check'.sent /\ ~last_check'.raised
                     /\ day_log'.alerts = day_log.alerts
                     /\ last_check'.read2 # NotRead )
          /\ Raises(last_check'.read2)
                => ( /\ ~last_check'.cleared /\ ~last_check'.raised
                     /\ state' = state /\ file' = file )
      ]_vars

C8_Witness ==
    /\ last_check # Absent
    /\ last_check.read1 = OSError /\ last_check.read2 = FileNotFoundError
    /\ ~last_check.sent /\ ~last_check.raised
    /\ state.disk_alert_last_sent_date = 1 /\ today = 2
    /\ PersistedAlerting

C10_ReloadEqualsMemory == _load_state(file) = state

\* the part of C10 that the code keeps: each of the five listed operations leaves
\* the file equal to the in-memory state, and a recorded deletion of sz bytes
\* reloads as one more file and sz more bytes
C10_MutatorsPersist ==
    [][ ( \/ \E pid \in Projects, sz \in FileSizes : RecordDeletion(pid, sz)
          \/ MarkDiskAlertSent \/ ClearDiskAlert \/ MarkWeeklyReportSent
          \/ ResetAllDeletionStats )
            => _load_state(file') = state' ]_vars

C10_ThreeDeletions ==
    \A pid \in DOMAIN state.projects :
        (state.projects[pid].deleted_files_count = 3
            /\ state.projects[pid].deleted_files_size_bytes = 60)
          => ( /\ file # Absent
               /\ pid \in DOMAIN _load_state(file).projects
               /\ _load_state(file).projects[pid].deleted_files_count = 3
               /\ _load_state(file).projects[pid].deleted_files_size_bytes = 60 )

\* ------------------------------------------------------------------------
\* save_state and _load_state under crashes and damaged files: properties
\* ------------------------------------------------------------------------
\* the file holds a complete dump (or was never written)
Complete(f) == f = Absent \/ "data" \in DOMAIN f

\* the step ends with the process dead inside save_state and its successor started
CrashStep == IF save_log' = Absent THEN FALSE ELSE save_log'.outcome = "crashed"

\* C11: when the process dies at any step of save_state the state file is
\* either what it was before the call or the complete new dump; a complete file
\* is never replaced by a partial one, and the next process loads the previous
\* or the new state
C11_AtomicSave ==
    [][ CrashStep =>
          /\ file' = file \/ file' = save_log'.new
          /\ Complete(file) => Complete(file')
          /\ state' = _load_state(file) \/ state' = _load_state(save_log'.new)
          /\ save_log'.step < 5 => file' = file
          /\ save_log'.step = 5 => file' = save_log'.new /\ tmp_file' = Absent
      ]_vars

C11_Witness ==
    /\ save_log # Absent
    /\ save_log.outcome = "crashed" /\ save_log.step = 3
    /\ save_log.op = "record_deletion"
    /\ tmp_file = PartialText
    /\ file = SavedStateFile
    /\ file # save_log.new
    /\ state = _load_state(SavedStateFile)

\* the try block of _load_state cannot rebuild the state records from f
Unloadable(f) ==
    /\ f # Absent
    /\ \/ "text" \in DOMAIN f
       \/ "json" \in DOMAIN f
       \/ /\ "data" \in DOMAIN f
          /\ "projects" \in DOMAIN f.data
          /\ \E pid \in DOMAIN f.data.projects :
                \/ "project_id" \notin DOMAIN f.data.projects[pid]
                \/ DOMAIN f.data.projects[pid] \ ProjectStateFields # {}

\* C12: no exception leaves _load_state whatever the state file holds; a missing
\* file, a file that is not valid JSON and a file whose content cannot be turned
\* into the state records load as the empty GlobalState, at construction and at
\* every restart
C12_LoadNeverFails ==
    /\ [](~_load_state_escapes(file))
    /\ []((file = Absent \/ Unloadable(file)) => _load_state(file) = EmptyGlobalState)
    /\ []((save_log = Absent /\ (file = Absent \/ Unloadable(file)))
             => state = EmptyGlobalState)
    /\ [][ (Restart /\ (file = Absent \/ Unloadable(file)))
              => state' = EmptyGlobalState ]_vars

C12_Witness ==
    /\ file = [json |-> "array"]
    /\ save_log # Absent
    /\ save_log.op = "record_deletion" /\ save_log.outcome = "raised"
    /\ state = EmptyGlobalState

\* ------------------------------------------------------------------------
\* run_once and send_weekly_summary: properties
\* ------------------------------------------------------------------------
\* the step is one run of a handler
HandlerStep == run_log' # Absent /\ (run_log = Absent \/ run_log'.tick # run_log.tick)

\* the paths of the deletion list a handler step starts from
DelPathSeq(pid) ==
    LET dels == DeletionList(Retention(project_retention, default_retention), pid, fs[pid])
    IN  [i \in DOMAIN dels |-> dels[i].path]

RECURSIVE SizeSum(_, _)
SizeSum(pid, paths) ==
    IF paths = <<>> THEN 0
    ELSE BackupOnDisk(pid, Head(paths)).size_bytes + SizeSum(pid, Tail(paths))

Counters(st, pid) ==
    IF pid \in DOMAIN st.projects
      THEN <<st.projects[pid].deleted_files_count, st.projects[pid].deleted_files_size_bytes>>
      ELSE <<0, 0>>

EventCount(log, e) == Cardinality({i \in DOMAIN log.events : log.events[i] = e})

\* C13 (as stated): every project entry, in memory and in the state file, belongs
\* to a project record_deletion was called for
C13_EntryOnlyAfterDeletion ==
    \A pid \in DOMAIN state.projects \cup DOMAIN _load_state(file).projects :
        pid \in recorded

\* C16: in execute mode every file of a project's deletion list is attempted, in
\* order, whatever fails before it; a file whose unlink fails gets one
\* deletion-failure event, stays on disk, and is neither counted nor recorded;
\* every other file is unlinked and recorded once, so that after run_once the
\* project's counters, in memory and in the file, grew by exactly the unlinked
\* files and their bytes
C16_DeletionFailureIsLocal ==
    [][ (HandlerStep /\ ~dry_run) =>
          \A i \in DOMAIN run_log'.projects :
            \A e \in {run_log'.projects[i]} :
              ~e.raised =>
                \A paths \in {DelPathSeq(e.project)} :
                  \A unlinked \in {SelectSeq(paths, LAMBDA k : k \notin Range(e.failed))} :
                    \A size \in {SizeSum(e.project, unlinked)} :
                      LET pid == e.project
                      IN  /\ e.attempted = paths
                          /\ \A k \in Range(e.failed) :
                                /\ k \in fs'[pid]
                                /\ EventCount(run_log', Event("deletion_failure", pid, k)) = 1
                          /\ e.record_calls = unlinked
                          /\ fs'[pid] = fs[pid] \ Range(unlinked)
                          /\ e.deleted_count = Len(unlinked)
                          /\ e.deleted_size = size
                          /\ run_log'.handler = "run_once" =>
                                /\ Counters(state', pid)[1]
                                      = Counters(state, pid)[1] + Len(unlinked)
                                /\ Counters(state', pid)[2] = Counters(state, pid)[2] + size
                                /\ Counters(_load_state(file'), pid) = Counters(state', pid)
      ]_vars

C16_Witness ==
    /\ ~dry_run
    /\ run_log # Absent
    /\ run_log.handler = "run_once"
    /\ run_log.projects[1].attempted = <<2, 1>>
    /\ run_log.projects[1].failed = <<2>>
    /\ run_log.projects[1].record_calls = <<1>>
    /\ fs["p1"] = {2, 3}
    /\ Counters(state, "p1") = <<1, 10>>
    /\ Counters(_load_state(file), "p1") = <<1, 10>>

\* C17: run_once handles every configured project in configuration order and
\* then checks the disk once, whichever projects raise; a project that raises
\* gets one general-error event and loses no file, a project that does not raise
\* has its whole deletion list attempted
C17_ProjectIsolation ==
    [][ (HandlerStep /\ run_log'.handler = "run_once") =>
          /\ run_log'.trace = ConfigProjects \o <<"check_disk_space">>
          /\ Len(run_log'.projects) = Len(ConfigProjects)
          /\ \A i \in DOMAIN run_log'.projects :
                LET e == run_log'.projects[i]
                IN  /\ e.project = ConfigProjects[i]
                    /\ EventCount(run_log', Event("general_error", e.project, 0))
                          = (IF e.raised THEN 1 ELSE 0)
                    /\ e.raised => fs'[e.project] = fs[e.project]
                    /\ ~e.raised => e.attempted = DelPathSeq(e.project)
      ]_vars

C17_Witness ==
    /\ ~dry_run
    /\ run_log # Absent
    /\ run_log.handler = "run_once"
    /\ run_log.projects[1].raised
    /\ ~run_log.projects[2].raised
    /\ run_log.projects[2].record_calls = <<2, 1>>
    /\ fs = [pid \in ConfigIds |-> IF pid = "p1" THEN 1..MaxFiles ELSE {3}]
    /\ run_log.trace = <<"p1", "p2", "check_disk_space">>

\* C18: a handler run in dry-run mode unlinks nothing and never calls
\* record_deletion; run_once leaves the deletion counters of every project as
\* they were, in memory and in the state file
C18_DryRunChangesNothing ==
    [][ (HandlerStep /\ dry_run) =>
          /\ fs' = fs
          /\ recorded' = recorded
          /\ \A i \in DOMAIN run_log'.projects :
                /\ run_log'.projects[i].record_calls = <<>>
                /\ run_log'.projects[i].failed = <<>>
          /\ run_log'.handler = "run_once" =>
                \A pid \in ConfigIds \cup {StaleProject} :
                    /\ Counters(state', pid) = Counters(state, pid)
                    /\ Counters(_load_state(file'), pid) = Counters(_load_state(file), pid)
      ]_vars

C18_Witness ==
    /\ dry_run
    /\ run_log # Absent
    /\ run_log.handler = "run_once"
    /\ fs["p1"] = 1..MaxFiles
    /\ run_log.projects[1].deleted_count = MaxFiles - 1
    /\ file # Absent
    /\ Counters(_load_state(file), "p1") = <<2, 30>>
    /\ _load_state(file).disk_alert_last_sent_date = today

\* C19: send_weekly_summary hands the summary to the notifier with the counters
\* as they stood, then marks the report and resets; afterwards every project
\* entry, in memory and in the file, has both counters at 0 and no entry is gone;
\* no step of any handler and no restart removes an entry from the file, and a
\* load keeps the entries of projects that are not configured
C19_WeeklyReset ==
    /\ [][ (HandlerStep /\ run_log'.handler = "send_weekly_summary") =>
             /\ run_log'.trace = ConfigProjects \o <<"send_weekly_summary",
                                    "mark_weekly_report_sent", "reset_all_deletion_stats">>
             /\ DOMAIN state.projects \subseteq DOMAIN state'.projects
             /\ \A pid \in DOMAIN state'.projects :
                   /\ Counters(state', pid) = <<0, 0>>
                   /\ pid \in DOMAIN state.projects =>
                         state'.projects[pid].last_deletion_timestamp
                             >= state.projects[pid].last_deletion_timestamp
             /\ _load_state(file') = state'
             /\ \A i \in DOMAIN run_log'.projects :
                   LET e == run_log'.projects[i]
                   IN  (~e.raised /\ ~dry_run) =>
                          e.stats_deleted_count
                              = Counters(state, e.project)[1] + Len(e.record_calls)
          ]_vars
    /\ [][ DOMAIN _load_state(file).projects \subseteq DOMAIN _load_state(file').projects ]_vars
    /\ [](DOMAIN _load_state(file).projects \subseteq DOMAIN state.projects)

C19_Witness ==
    /\ ~dry_run
    /\ run_log # Absent
    /\ run_log.handler = "send_weekly_summary"
    /\ run_log.projects[1].stats_deleted_count = 4
    /\ Counters(state, "p1") = <<0, 0>>
    /\ Counters(state, StaleProject) = <<0, 0>>
    /\ StaleProject \in DOMAIN _load_state(file).projects
    /\ _load_state(file).projects[StaleProject].last_deletion_timestamp = 1
    /\ _load_state(file).last_weekly_report_timestamp = today

\* ---- the alert on later dates ----
\* an alert was sent on an earlier date and no sample since was above the
\* resolve threshold
AlertOutstanding ==
    /\ alert_log.sent_on # None
    /\ alert_log.sent_on < today
    /\ ~alert_log.exceeded

\* C20: the low-disk alert is sent daily until resolved: once an alert was
\* sent and no sample has exceeded threshold + margin since, every later
\* date on which check_disk_space has run has its alert.
C20_DailyUntilResolved ==
    (AlertOutstanding /\ day_log.checks >= 1) => day_log.alerts >= 1

\* ------------------------------------------------------------------------
\* Scanner: properties
\* ------------------------------------------------------------------------
\* every string a strategy may hand to strptime: the filename, its parts
\* (the extension-stripped name is the first part), the subparts
StrategyStrings(filename) ==
    {filename.parts}
       \cup {<<filename.parts[i]>> : i \in DOMAIN filename.parts}
       \cup UNION {{<<<<filename.parts[i][j]>>>> : j \in DOMAIN filename.parts[i]} :
                      i \in DOMAIN filename.parts}

FormatMatches(filename, fmt) ==
    \E string \in StrategyStrings(filename) : strptime(string, fmt) # NoMatch

\* entry i of the listing is a file matching the pattern whose size could
\* be read and is strictly below the minimum
Undersized(i) ==
    /\ listing[i].is_file
    /\ pattern_match(scan_cfg.filename_pattern, listing[i].name)
    /\ listing[i].stat # OSError
    /\ listing[i].stat * scan_cfg.min_file_size_mb.den
          < scan_cfg.min_file_size_mb.num * 1024 * 1024

\* C14: a file matching the pattern whose size is strictly below the minimum
\* is never in the valid list, whatever its name, and is exactly once in the
\* undersized list, with its size in megabytes; no name is in both lists and
\* every valid record has at least the minimum size.
C14_UndersizedNeverValid ==
    scanned # Absent =>
       /\ \A i \in DOMAIN listing :
             Undersized(i) =>
                /\ \A j \in DOMAIN scanned.valid :
                      scanned.valid[j].filename # listing[i].name
                /\ Cardinality({j \in DOMAIN scanned.undersized :
                                   scanned.undersized[j][1] = listing[i].name}) = 1
                /\ \E j \in DOMAIN scanned.undersized :
                      scanned.undersized[j]
                         = <<listing[i].name,
                             [num |-> listing[i].stat, den |-> 1048576]>>
       /\ \A j \in DOMAIN scanned.valid : \A k \in DOMAIN scanned.undersized :
             scanned.valid[j].filename # scanned.undersized[k][1]
       /\ \A j \in DOMAIN scanned.valid :
             scanned.valid[j].size_bytes * scan_cfg.min_file_size_mb.den
                >= scan_cfg.min_file_size_mb.num * 1024 * 1024

\* a file one byte short of the 1 MB minimum whose name carries a timestamp
\* is reported undersized, next to a valid backup
C14_Witness ==
    /\ scanned # Absent
    /\ Len(scanned.valid) = 1
    /\ Len(scanned.undersized) = 1
    /\ \E i \in DOMAIN listing :
          /\ Undersized(i)
          /\ listing[i].stat = 1048575
          /\ scan_cfg.datetime_formats = <<<<"%Y%m%d">>>>
          /\ FormatMatches(listing[i].name, <<"%Y%m%d">>)
          /\ scanned.undersized[1][1] = listing[i].name

\* C15: the result is that of the first configured format that matches by
\* any strategy, later formats notwithstanding; the fuzzy parser is consulted
\* only when no format matches, its failure gives no match, and nothing is
\* raised.
C15_FormatPriority ==
    scanned # Absent =>
       LET filename == scanned.filename
           formats == scan_cfg.datetime_formats
           matching == {k \in DOMAIN formats : FormatMatches(filename, formats[k])}
       IN  /\ ~scanned.parsed.escapes
           /\ matching # {} =>
                 LET first == CHOOSE k \in matching : \A j \in matching : k <= j
                 IN  /\ scanned.parsed.format = first
                     /\ scanned.parsed.dt # NoMatch
                     /\ scanned.parsed.dt
                           \in {strptime(string, formats[first]) :
                                   string \in StrategyStrings(filename)}
                     /\ ~scanned.parsed.fuzzy_called
           /\ matching = {} =>
                 /\ scanned.parsed.fuzzy_called
                 /\ scanned.parsed.dt = IF filename.fuzzy.raised = "none"
                                          THEN filename.fuzzy.dt ELSE NoMatch

\* 20240115_030000.tar with the formats %H%M%S, %Y%m%d_%H%M%S: the first
\* format wins with 03:00 on 1900-01-01 although the second matches the
\* whole date and time
C15_Witness ==
    /\ scanned # Absent
    /\ scanned.filename.parts = <<<<"20240115", "030000">>, <<"tar">>>>
    /\ scan_cfg.datetime_formats = <<<<"%H%M%S">>, <<"%Y%m%d", "%H%M%S">>>>
    /\ FormatMatches(scanned.filename, scan_cfg.datetime_formats[2])
    /\ scanned.parsed.dt = <<1900, 1, 1, 3>>
    /\ scanned.parsed.format = 1
    /\ ~scanned.parsed.fuzzy_called

\* ------------------------------------------------------------------------
\* Retention engine: the deletion list as a partition, a second pass, the
\* order of the input
\* ------------------------------------------------------------------------
\* the three selections of the call that produced deletions, as paths
TierPaths(tier) ==
    IF backups = <<>> THEN {}
    ELSE IF tier = "daily" THEN DailyKeep(engine, SortedBackups(backups))
    ELSE IF tier = "weekly" THEN WeeklyKeep(engine, SortedBackups(backups))
    ELSE MonthlyKeep(engine, SortedBackups(backups))

SelectedPaths == TierPaths("daily") \cup TierPaths("weekly") \cup TierPaths("monthly")

Occurrences(s, x) == Cardinality({i \in DOMAIN s : s[i] = x})

\* C22: the deletion list holds input records only, no deleted location is
\* selected by a tier and every input location is deleted or selected; a
\* record leaves the input as often as it is in it or not at all, however
\* many tiers select it; records of one location are deleted together or
\* kept together.
C22_PartitionByLocation ==
    RotDone =>
       /\ Range(deletions) \subseteq Range(backups)
       /\ DeletedPaths \cap SelectedPaths = {}
       /\ DeletedPaths \cup SelectedPaths = InputPaths
       /\ \A b \in Range(backups) :
             Occurrences(deletions, b)
                = IF b.path \in SelectedPaths THEN 0 ELSE Occurrences(backups, b)
       /\ \A a, b \in Range(backups) :
             a.path = b.path => (a \in Range(deletions) <=> b \in Range(deletions))

\* two records of location 1 with different timestamps, the older one
\* selected by no tier on its own, are both kept; location 2 is deleted;
\* the newest record is selected by all three tiers
C22_Witness ==
    /\ RotDone
    /\ engine = [daily_count |-> 1, weekly_count |-> 1, monthly_count |-> 1]
    /\ Len(backups) = 3
    /\ backups[1] = [path |-> 1, timestamp |-> <<2025, 1, 6, 3>>]
    /\ backups[2] = [path |-> 1, timestamp |-> <<2024, 12, 30, 3>>]
    /\ backups[3].path = 2
    /\ TierPaths("daily") = {1} /\ TierPaths("weekly") = {1}
    /\ 1 \in TierPaths("monthly")
    /\ DeletedPaths = {2}

\* the records a first pass leaves behind once its deletion list is
\* unlinked, in the order of the scan
RetainedBackups == SelectSeq(backups, LAMBDA b : b.path \notin DeletedPaths)

\* C24: for an input of pairwise distinct timestamps, calculate_deletions
\* with the same policy on the retained records (input minus deletion list)
\* returns an empty deletion list.
C24_FixedPoint ==
    (RotDone /\ DistinctTimestamps) =>
        calculate_deletions(engine, RetainedBackups) = <<>>

\* four records, two of them deleted by the first pass, none by the second
C24_Witness ==
    /\ RotDone /\ DistinctTimestamps
    /\ Len(backups) = 4
    /\ Len(deletions) = 2
    /\ Len(RetainedBackups) = 2
    /\ calculate_deletions(engine, RetainedBackups) = <<>>

\* the input list in every order
Reorderings ==
    {[i \in DOMAIN backups |-> backups[f[i]]] : f \in Permutations(DOMAIN backups)}

PathsOf(s) == {s[i].path : i \in DOMAIN s}

\* C25: calculate_deletions returns the same set of records for every order
\* of the input list, also when several records carry the same timestamp.
C25_OrderIndependent ==
    RotDone =>
        \A reordered \in Reorderings :
            PathsOf(calculate_deletions(engine, reordered)) = DeletedPaths

\* ------------------------------------------------------------------------
\* Scheduler mode: properties
\* ------------------------------------------------------------------------
\* C21: in the scheduler loop, when the weekly job is due, run_pending runs
\* send_weekly_summary to completion (summary sent, report marked, counters
\* reset) and the loop keeps running.
C21_WeeklyJobRuns ==
    [][ (sched.pc = "loop" /\ sched.due /\ sched' # sched) =>
          /\ sched'.pc = "loop"
          /\ ~sched'.due
          /\ run_log'.handler = "send_weekly_summary"
          /\ EventCount(run_log', Event("weekly_summary", "", 0)) = 1
          /\ state'.last_weekly_report_timestamp = today
          /\ \A pid \in DOMAIN state'.projects : Counters(state', pid) = <<0, 0>>
      ]_vars

\* ------------------------------------------------------------------------
\* One project from scan to unlink: properties
\* ------------------------------------------------------------------------
\* how the scanner contract classifies a directory entry under cfg
Classify(item, cfg) ==
    IF ~item.is_file \/ ~pattern_match(cfg.filename_pattern, item.name)
      THEN "ignored"
    ELSE IF item.stat = OSError THEN "unreadable"
    ELSE IF item.stat * cfg.min_file_size_mb.den < cfg.min_file_size_mb.num * 1024 * 1024
      THEN "undersized"
    ELSE IF /\ \A k \in DOMAIN cfg.datetime_formats :
                  ~FormatMatches(item.name, cfg.datetime_formats[k])
            /\ item.name.fuzzy.raised # "none"
      THEN "unparsable"
    ELSE "valid"

Names(items) == {items[i].name : i \in DOMAIN items}

FilenamesOf(records) == {records[i].filename : i \in DOMAIN records}

\* C23: every file process_project unlinks is a record of the valid list of
\* the same scan; an entry that is ignored, undersized or unparsable (or whose
\* size cannot be read) stays in the directory and is in none of the daily,
\* weekly and monthly selections, which are those of the valid records alone.
C23_OnlyValidRotated ==
    [][ (rot_pc = "scan" /\ rot_pc' = "done") =>
          \A valid \in {SelectSeq(listing, LAMBDA item : Classify(item, scan_cfg) = "valid")} :
            \A sorted \in {SortedBackups(backups')} :
              /\ Names(listing) \ Names(listing') \subseteq FilenamesOf(scanned'.valid)
              /\ FilenamesOf(scanned'.valid) = Names(valid)
              /\ \A i \in DOMAIN listing :
                    Classify(listing[i], scan_cfg) # "valid" =>
                       /\ listing[i] \in Range(listing')
                       /\ listing[i].name \notin DailyKeep(engine', sorted)
                       /\ listing[i].name \notin WeeklyKeep(engine', sorted)
                       /\ listing[i].name \notin MonthlyKeep(engine', sorted)
              /\ Names(listing')
                    = Names(listing) \ PathsOf(calculate_deletions(engine',
                          [i \in DOMAIN valid |->
                              [path |-> valid[i].name,
                               timestamp |-> scanned'.valid[i].timestamp]]))
      ]_vars

\* backup_20240116.tar is undersized, backup_20240115.tar and backup.tar
\* (2024-01-14 by the fuzzy parser) are valid: with daily 1 the daily slot
\* goes to backup_20240115.tar and not to the newer undersized file, the
\* older valid file is unlinked, the undersized file stays
C23_Witness ==
    /\ rot_pc = "done"
    /\ Len(scanned.valid) = 2
    /\ Len(scanned.undersized) = 1
    /\ Len(deletions) = 1
    /\ Len(listing) = 2
    /\ engine = [daily_count |-> 1, weekly_count |-> 0, monthly_count |-> 0]
    /\ deletions[1].timestamp = <<2024, 1, 14, 0>>
    /\ \E i \in DOMAIN listing :
          /\ Classify(listing[i], scan_cfg) = "undersized"
          /\ listing[i].name.parts = <<<<"backup", "20240116">>, <<"tar">>>>
    /\ \E i \in DOMAIN listing :
          /\ Classify(listing[i], scan_cfg) = "valid"
          /\ listing[i].name.parts = <<<<"backup", "20240115">>, <<"tar">>>>


\* ---- leaving the ALERTING state ----
\* C26: an outstanding disk alert can always be resolved: whatever trigger
\* and margin validation accepted, while the persisted alert date is set
\* there are free-space readings in [0,100] for which check_disk_space
\* clears the date, in memory and in the state file.
C26_AlertResolvable ==
    Alerting(state) =>
       \E u1, u2 \in Percentages :
          \A out \in {check_disk_space(disk, state, file, today, u1, u2)} :
             /\ ~Alerting(out.state)
             /\ ~Alerting(_load_state(out.file))


\* ---- the weekly reset and what the summary reported ----
\* deletions the handler run of log recorded for project pid
RecordedInRun(log, pid) ==
    LET entries == {i \in DOMAIN log.projects : log.projects[i].project = pid}
    IN  IF entries = {} THEN 0
        ELSE Len(log.projects[CHOOSE i \in entries : TRUE].record_calls)

\* C27: no recorded deletion is reset unreported: a project whose counter
\* is positive when send_weekly_summary resets it has an entry in the
\* statistics handed to the notifier, with that counter value, also when
\* process_project raised for it during the summary. Stated for the
\* configured projects of a run in execute mode.
C27_NoUnreportedReset ==
    [][ (HandlerStep /\ run_log'.handler = "send_weekly_summary" /\ ~dry_run) =>
          \A pid \in ConfigIds \cap DOMAIN state'.projects :
             \A n \in {Counters(state, pid)[1] + RecordedInRun(run_log', pid)} :
                n > 0 =>
                   \E i \in DOMAIN run_log'.projects :
                      /\ run_log'.projects[i].project = pid
                      /\ ~run_log'.projects[i].raised
                      /\ run_log'.projects[i].stats_deleted_count = n
      ]_vars


\* ---- the alert date and the delivery of the alert ----
\* C28: the persisted alert date records a delivered alert: an invocation
\* of check_disk_space sets disk_alert_last_sent_date to today only if its
\* low-disk alert was delivered by the notifier; when the delivery failed
\* the date, in memory and in the state file, is the one before the check.
C28_DateRecordsDelivery ==
    [][ CheckStep =>
          /\ (/\ state'.disk_alert_last_sent_date = today
              /\ state.disk_alert_last_sent_date # today) => last_check'.delivered
          /\ (last_check'.sent /\ ~last_check'.delivered) =>
                /\ state'.disk_alert_last_sent_date = state.disk_alert_last_sent_date
                /\ _load_state(file').disk_alert_last_sent_date
                      = _load_state(file).disk_alert_last_sent_date
      ]_vars

====
